---- MODULE Spec2Model ----
(***************************************************************************)
(* A model of vrianta/golang.db.model: the component cache sync protocol   *)
(* (components.go: loadComponentFromDisk, saveComponentToDisk,             *)
(* SyncComponentWithDB, refreshComponentFromDB, UpdateComponent) and the   *)
(* schema reconciler (syncTableSchema with its DDL helpers), the           *)
(* registration of a model (New and its validation) and the startup that   *)
(* waits for the database and creates the tables.                          *)
(*                                                                         *)
(* Strings whose contents the code inspects (component keys) are sequences *)
(* of one-character strings, so that strconv.Atoi and fmt.Sprint are       *)
(* computed and not assumed.                                               *)
(***************************************************************************)
EXTENDS Integers, Sequences, FiniteSets, TLC

VARIABLES
    pkType,      \* m.primary.Type of the component table: "Int" or "VarChar"
    components,  \* m.components: key string -> component
    file,        \* <table>.component.json: whether it exists, and key string -> component
    dbRows,      \* the rows of the database table: primary key value -> row
    pc,          \* "idle", or "prompt" while refreshComponentFromDB waits on stdin
    prompts,     \* number of conflict prompts printed by the running refresh
    last,        \* the last call: its name, inputs and outcome
    pre,         \* components, file and dbRows when the last call began
    log,         \* the INSERT / DELETE / UPDATE statements the last call issued
    calls,       \* number of calls made so far
    faults,      \* number of failures of the environment so far
    fields,      \* m.FieldTypes: the declared fields, in the order the map yields them
    table,       \* the columns of the live table, in table order
    schemas,     \* m.schemas: the snapshot syncModelSchema took of the table
    phase,       \* where the reconciler is: "idle", "running", "done" or "panic"
    step,        \* number of prompts of this pass of syncTableSchema answered so far
    pending,     \* pendingAddFields, each with the trimmed answer that queued it
    pass,        \* "none", "first" or "second": the pass that runs or ran last
    trail,       \* the prompts and ALTER TABLE statements of this pass, in order
    prevClean,   \* the pass before this one confirmed and executed all it proposed
    syncDatabaseEnabled, \* set by init() from --migrate-model / -mm
    registry,    \* ModelsRegistry: the names of the tables registered and not yet removed
    dependsOn,   \* depends_on of every table registered
    references,  \* fk.referenceTable of the foreign key fields of every table registered
    existing,    \* the tables of the database
    current,     \* the table the startup loop is at
    retryCount,  \* retryCount of the wait for the database of the current table
    pings,       \* the outcomes of the Ping calls made for the current table, in order
    sleeps,      \* seconds slept while waiting for the database for the current table
    initPc,      \* where the startup is
    created,     \* the tables create_model has completed, in order
    registered,  \* outcome of New: "none", "registered" or "panic"
    compared,    \* what Compare answered for each field and its own rendering
    workers,     \* the goroutines of validate(): where each is, and the panic it recovered
    fieldNames,  \* fieldNames of validate(): the names seen so far
    firstErr,    \* firstErr of validate(): "nil" or the first panic recorded
    primaryKeyCount, \* primaryKeyCount of validate()
    wg,          \* the counter of the WaitGroup of validate()
    mainPc,      \* where validate() itself is
    query,       \* the queryBuilder of the chain being built
    chain,       \* the calls of the chain so far
    result,      \* what Exec returned and the statement it sent
    reader,      \* the goroutine that reads the component map
    writer,      \* the goroutine that changes the component map
    syncComponentsEnabled, \* set by init() from --migrate-component / -mc
    initialised, \* model.initialised of the table syncTable runs for
    statements,  \* the schema statements and queries syncTable sent, in order
    tablePc      \* where syncTable is

compVars == <<pkType, components, file, dbRows, pc, prompts, last, pre, log, calls>>

recVars == <<fields, table, schemas, phase, step, pending, pass, trail, prevClean>>

initVars == <<registry, dependsOn, references, existing, current, retryCount, pings,
              sleeps, initPc, created>>

newVars == <<registered, compared>>

valVars == <<workers, fieldNames, firstErr, primaryKeyCount, wg, mainPc>>

queryVars == <<query, chain, result>>

raceVars == <<reader, writer>>

tableVars == <<syncComponentsEnabled, initialised, statements, tablePc>>

otherVars == <<valVars, queryVars, raceVars, tableVars>>

startVars == <<syncDatabaseEnabled, initVars, newVars, otherVars>>

vars == <<pkType, components, file, dbRows, pc, prompts, last, pre, log, calls, faults,
          fields, table, schemas, phase, step, pending, pass, trail, prevClean,
          syncDatabaseEnabled, registry, dependsOn, references, existing, current,
          retryCount, pings, sleeps, initPc, created, registered, compared,
          workers, fieldNames, firstErr, primaryKeyCount, wg, mainPc,
          query, chain, result, reader, writer,
          syncComponentsEnabled, initialised, statements, tablePc>>

-----------------------------------------------------------------------------
(* Bounds of the model *)

\* at most this many records in the JSON file and rows in the table initially
MaxRows == 2
\* at most this many calls of the component API in one behaviour
MaxCalls == 2
\* at most this many conflict prompts within one refresh
MaxPrompts == 3
\* at most this many failures of the environment (database, file system) in one
\* behaviour
MaxFaults == 1

-----------------------------------------------------------------------------
(* Maps *)

EmptyMap == [k \in {} |-> "none"]

Put(f, k, v) == [x \in (DOMAIN f) \cup {k} |-> IF x = k THEN v ELSE f[x]]

Remove(f, k) == [x \in (DOMAIN f) \ {k} |-> f[x]]

-----------------------------------------------------------------------------
(* Keys: Go strings, int64 values and the map[any] keys built from them *)

\* the key strings that occur in JSON files: canonical decimals, a decimal with
\* a leading zero, and names that are no numbers
KeyStrings == { <<"0">>, <<"1">>, <<"0", "1">>, <<"a">> }

\* the integers an INT primary key column holds
KeyInts == {0, 1, 2}

Int64(n) == [t |-> "int64", n |-> n, s |-> <<>>]

Str(s) == [t |-> "string", n |-> 0, s |-> s]

DigitValue(c) ==
    CASE c = "0" -> 0 [] c = "1" -> 1 [] c = "2" -> 2 [] c = "3" -> 3
      [] c = "4" -> 4 [] c = "5" -> 5 [] c = "6" -> 6 [] c = "7" -> 7
      [] c = "8" -> 8 [] c = "9" -> 9 [] OTHER -> -1

RECURSIVE DigitsValue(_, _)
DigitsValue(s, acc) ==
    IF s = <<>> THEN acc ELSE DigitsValue(Tail(s), acc * 10 + DigitValue(Head(s)))

AllDigits(s) == s /= <<>> /\ \A i \in 1..Len(s) : DigitValue(s[i]) >= 0

\* strconv.Atoi: an optional sign, then one or more decimal digits
Atoi(s) ==
    LET signed   == s /= <<>> /\ Head(s) \in {"+", "-"}
        digits   == IF signed THEN Tail(s) ELSE s
        negative == signed /\ Head(s) = "-"
    IN  IF AllDigits(digits)
        THEN [ok |-> TRUE,
              n  |-> IF negative THEN 0 - DigitsValue(digits, 0) ELSE DigitsValue(digits, 0)]
        ELSE [ok |-> FALSE, n |-> 0]

DigitChar(d) ==
    CASE d = 0 -> "0" [] d = 1 -> "1" [] d = 2 -> "2" [] d = 3 -> "3"
      [] d = 4 -> "4" [] d = 5 -> "5" [] d = 6 -> "6" [] d = 7 -> "7"
      [] d = 8 -> "8" [] OTHER -> "9"

RECURSIVE NatToString(_)
NatToString(n) ==
    IF n < 10 THEN <<DigitChar(n)>> ELSE Append(NatToString(n \div 10), DigitChar(n % 10))

\* fmt.Sprint of a map[any] key: a string as it is, an int64 in decimal
Sprint(k) ==
    IF k.t = "string" THEN k.s
    ELSE IF k.n < 0 THEN <<"-">> \o NatToString(0 - k.n) ELSE NatToString(k.n)

-----------------------------------------------------------------------------
(* The database table and the JSON file, as the code reaches them *)

NoFile == [exists |-> FALSE, data |-> EmptyMap]

FileOf(m) == [exists |-> TRUE, data |-> m]

\* a record loaded from the JSON file, a row that was already in the table, and
\* the values UpdateComponent is called with (EmptyValue is the empty map)
FileValue == "file"
RowValue == "row"
NewValue == "new"
EmptyValue == "empty"

\* one failure of the environment per call: none, the SELECT, one INSERT, one
\* DELETE, the UPDATE, reading the file or writing the file
NoFault == [kind |-> "none", key |-> Str(<<>>)]

Faults(inserts, deletes) ==
    {NoFault, [kind |-> "fetch", key |-> Str(<<>>)], [kind |-> "save", key |-> Str(<<>>)]}
        \cup {[kind |-> "insert", key |-> Str(k)] : k \in inserts}
        \cup {[kind |-> "delete", key |-> k] : k \in deletes}

Stmt(op, key, ok) == [op |-> op, key |-> key, ok |-> ok]

\* the primary key value the table stores for the record with JSON key k: an INT
\* column holds the number the key denotes, a VARCHAR column the key itself
ColumnValue(type, k) ==
    IF type = "Int"
    THEN LET a == Atoi(k) IN [ok |-> a.ok, key |-> Int64(a.n)]
    ELSE [ok |-> TRUE, key |-> Str(k)]

\* m.Get().Fetch(): ping and SELECT *, the rows keyed by the primary key value
\* as the driver returns it (int64 for an INT column, []byte -> string otherwise)
Fetch(rows, fault) ==
    [err |-> fault.kind = "fetch", res |-> IF fault.kind = "fetch" THEN EmptyMap ELSE rows]

\* m.InsertRow(v): INSERT INTO table; the statement fails on a connection error,
\* a value the column cannot hold, or a duplicate primary key
InsertRow(type, rows, k, v, fault) ==
    LET col == ColumnValue(type, k)
        err == \/ fault = [kind |-> "insert", key |-> Str(k)]
               \/ ~col.ok
               \/ col.key \in DOMAIN rows
    IN  [err |-> err, rows |-> IF err THEN rows ELSE Put(rows, col.key, v)]

\* m.Delete().Where(m.primary).Is(k).Exec(): DELETE FROM table WHERE pk = k
DeleteWhere(type, rows, k, fault) ==
    LET col == IF k.t = "string" THEN ColumnValue(type, k.s) ELSE [ok |-> TRUE, key |-> k]
        err == fault = [kind |-> "delete", key |-> k]
    IN  [err |-> err,
         rows |-> IF err \/ ~col.ok THEN rows ELSE Remove(rows, col.key)]

\* a variant of saveComponentToDisk below that writes nothing and reports no error
SaveSkipped(comps, fileNow, fault) == [err |-> FALSE, file |-> fileNow]

\* saveComponentToDisk: the whole file is rewritten from m.components
SaveComponentToDisk(comps, fileNow, fault) ==
    IF fault.kind = "save"
    THEN [err |-> TRUE, file |-> fileNow]
    ELSE [err |-> FALSE, file |-> FileOf(comps)]

-----------------------------------------------------------------------------
(* SyncComponentWithDB *)

\* every order in which `range` may visit the keys S of a map
Orders(S) == {o \in [1..Cardinality(S) -> S] : \A i, j \in 1..Cardinality(S) : i /= j => o[i] /= o[j]}

\* a variant of the iteration below that reports success without adding a row
InsertStepNoRow(type, k, comps, st, fault) ==
    [rows |-> st.rows, log |-> Append(st.log, Stmt("INSERT", Str(k), TRUE))]

\* one iteration of the loop of the empty-database path: the record is
\* inserted, a failed insert is printed and the loop goes on
InsertStep(type, k, comps, st, fault) ==
    LET ins == InsertRow(type, st.rows, k, comps[k], fault)
    IN  [rows |-> ins.rows, log |-> Append(st.log, Stmt("INSERT", Str(k), ~ins.err))]

\* a variant of the loop below that is left at the first insert that fails
RECURSIVE InsertUntilError(_, _, _, _, _)
InsertUntilError(type, order, comps, st, fault) ==
    IF order = <<>> \/ (st.log /= <<>> /\ ~st.log[Len(st.log)].ok) THEN st
    ELSE CHOOSE out \in {InsertUntilError(type, Tail(order), comps, next, fault) :
                             next \in {InsertStep(type, Head(order), comps, st, fault)}} : TRUE

\* the loop of the empty-database path over the keys in visiting order
RECURSIVE InsertAll(_, _, _, _, _)
InsertAll(type, order, comps, st, fault) ==
    IF order = <<>> THEN st
    ELSE CHOOSE out \in {InsertAll(type, Tail(order), comps, next, fault) :
                             next \in {InsertStep(type, Head(order), comps, st, fault)}} : TRUE

\* a variant of the lookup below without the conversion: the key string itself
LookupKeyAsString(type, k) == [ok |-> TRUE, key |-> Str(k)]

\* the key a local key is looked up under in dbResults: int64(Atoi(k)) when the
\* primary key is FieldTypes.Int, the string itself otherwise
LookupKey(type, k) ==
    IF type = "Int"
    THEN LET a == Atoi(k) IN [ok |-> a.ok, key |-> Int64(a.n)]
    ELSE [ok |-> TRUE, key |-> Str(k)]

\* the local keys the loops have something to do for: those not found in
\* dbResults.  A key that is found is skipped wherever `range` visits it, so the
\* visiting orders of the other keys stand for all orders.
ActiveKeys(type, comps, res) ==
    {k \in DOMAIN comps : ~(LookupKey(type, k).ok /\ LookupKey(type, k).key \in DOMAIN res)}

\* one iteration of the "Add missing" loop: st.status becomes "error" when Atoi
\* fails (return err) and "panic" when an insert fails; an inserted record
\* enters dbResults under its string key
AddStep(type, k, comps, st, fault) ==
    LET look == LookupKey(type, k)
        ins  == InsertRow(type, st.rows, k, comps[k], fault)
    IN  IF ~look.ok THEN [st EXCEPT !.status = "error"]
        ELSE IF look.key \in DOMAIN st.res THEN st
        ELSE IF ins.err
             THEN [st EXCEPT !.status = "panic",
                             !.log = Append(st.log, Stmt("INSERT", Str(k), FALSE))]
             ELSE [st EXCEPT !.rows = ins.rows,
                             !.res = Put(st.res, Str(k), comps[k]),
                             !.log = Append(st.log, Stmt("INSERT", Str(k), TRUE))]

\* the "Add missing" loop over the keys in visiting order, left at the first
\* error or panic
RECURSIVE AddMissing(_, _, _, _, _)
AddMissing(type, order, comps, st, fault) ==
    IF order = <<>> \/ st.status /= "ok" THEN st
    ELSE CHOOSE out \in {AddMissing(type, Tail(order), comps, next, fault) :
                             next \in {AddStep(type, Head(order), comps, st, fault)}} : TRUE

\* the keys of dbResults that the "Remove stale" loop deletes
StaleKeys(comps, res) == {k \in DOMAIN res : Sprint(k) \notin DOMAIN comps}

\* one iteration of the "Remove stale" loop: the error of the DELETE is
\* discarded and dbResults keeps the entry
RemoveStep(type, k, st, fault) ==
    LET del == DeleteWhere(type, st.rows, k, fault)
    IN  [st EXCEPT !.rows = del.rows, !.log = Append(st.log, Stmt("DELETE", k, ~del.err))]

\* the "Remove stale" loop.  The deletes touch different rows, so one visiting
\* order stands for all.
RECURSIVE RemoveStale(_, _, _, _)
RemoveStale(type, stale, st, fault) ==
    IF stale = {} THEN st
    ELSE LET k == CHOOSE x \in stale : TRUE
         IN  CHOOSE out \in {RemoveStale(type, stale \ {k}, next, fault) :
                                 next \in {RemoveStep(type, k, st, fault)}} : TRUE

\* updated[fmt.Sprint(k)] = component(v) for every entry of dbResults
Updated(res) ==
    [s \in {Sprint(k) : k \in DOMAIN res} |-> res[CHOOSE k \in DOMAIN res : Sprint(k) = s]]

\* what a call of SyncComponentWithDB leaves in memory, on disk and in the
\* table, the statements it issued and how it ended
Outcome(comps, fileNow, rows, stmts, ret, path) ==
    [components |-> comps, file |-> fileNow, dbRows |-> rows, log |-> stmts,
     ret |-> ret, path |-> path]

\* the empty-database path: insert every local record and return nil
SyncEmptyDB(type, comps, fileNow, rows, order, fault) ==
    LET all == InsertAll(type, order, comps, [rows |-> rows, log |-> <<>>], fault)
    IN  Outcome(comps, fileNow, all.rows, all.log, "nil", "dbempty")

\* the end of the reconcile path: delete the stale rows, rebuild m.components
\* from dbResults and save it
SyncFinish(type, comps, fileNow, added, fault) ==
    LET cleaned == RemoveStale(type, StaleKeys(comps, added.res), added, fault)
        updated == Updated(added.res)
        saved   == SaveComponentToDisk(updated, fileNow, fault)
    IN  Outcome(updated, saved.file, cleaned.rows, cleaned.log,
                IF saved.err THEN "error" ELSE "nil", "reconcile")

\* the reconcile path: the "Add missing" loop, then the rest unless it was left
SyncReconcile(type, comps, fileNow, rows, res, order, fault) ==
    CHOOSE out \in
        {IF added.status /= "ok"
         THEN Outcome(comps, fileNow, added.rows, added.log, added.status, "reconcile")
         ELSE SyncFinish(type, comps, fileNow, added, fault) :
            added \in {AddMissing(type, order, comps,
                                  [rows |-> rows, res |-> res, log |-> <<>>, status |-> "ok"],
                                  fault)}} : TRUE

\* a variant of SyncComponentWithDB below without the early return for an empty
\* in-memory set
SyncWithoutLocalCheck(type, comps, fileNow, rows, order, fault) ==
    LET fetched == Fetch(rows, fault)
    IN  IF fetched.err THEN Outcome(comps, fileNow, rows, <<>>, "error", "fetch")
        ELSE IF DOMAIN fetched.res = {}
             THEN SyncEmptyDB(type, comps, fileNow, rows, order, fault)
        ELSE SyncReconcile(type, comps, fileNow, rows, fetched.res, order, fault)

\* the whole of SyncComponentWithDB
SyncComponentWithDB(type, comps, fileNow, rows, order, fault) ==
    LET fetched == Fetch(rows, fault)
    IN  IF DOMAIN comps = {} THEN Outcome(comps, fileNow, rows, <<>>, "nil", "nolocal")
        ELSE IF fetched.err THEN Outcome(comps, fileNow, rows, <<>>, "error", "fetch")
        ELSE IF DOMAIN fetched.res = {}
             THEN SyncEmptyDB(type, comps, fileNow, rows, order, fault)
        ELSE SyncReconcile(type, comps, fileNow, rows, fetched.res, order, fault)

-----------------------------------------------------------------------------
(* loadComponentFromDisk, refreshComponentFromDB, UpdateComponent *)

\* loadComponentFromDisk: no file gives the empty set; a file that cannot be
\* read or parsed leaves m.components as it was
LoadComponentFromDisk(comps, fileNow, fault) ==
    IF ~fileNow.exists THEN EmptyMap
    ELSE IF fault.kind = "read" THEN comps
    ELSE fileNow.data

\* m.HasPrimaryKey(): component tables are declared with a primary key
HasPrimaryKey(type) == type \in {"Int", "VarChar"}

\* a variant of refreshComponentFromDB below that keeps the local records the
\* table does not have
RefreshMerging(type, comps, fileNow, rows, fault) ==
    LET fetched == Fetch(rows, fault)
        updated == Updated(fetched.res)
        merged  == [k \in DOMAIN comps \cup DOMAIN updated |->
                        IF k \in DOMAIN updated THEN updated[k] ELSE comps[k]]
    IN  IF fetched.err
        THEN [components |-> comps, file |-> fileNow, pc |-> "idle", ret |-> "fetcherror"]
        ELSE IF DOMAIN updated = {} /\ DOMAIN comps /= {}
        THEN [components |-> comps, file |-> fileNow, pc |-> "prompt", ret |-> "prompt"]
        ELSE [components |-> merged,
              file       |-> SaveComponentToDisk(merged, fileNow, fault).file,
              pc         |-> "idle",
              ret        |-> "overwritten"]

\* a variant of the run below that asks the operator whenever the local set
\* is not empty, whatever the fetch returned
RefreshAlwaysAsks(type, comps, fileNow, rows, fault) ==
    LET same    == [components |-> comps, file |-> fileNow, pc |-> "idle", ret |-> "nokey"]
        fetched == Fetch(rows, fault)
        updated == Updated(fetched.res)
    IN  IF ~HasPrimaryKey(type) THEN same
        ELSE IF fetched.err THEN [same EXCEPT !.ret = "fetcherror"]
        ELSE IF DOMAIN comps /= {}
             THEN [same EXCEPT !.pc = "prompt", !.ret = "prompt"]
        ELSE [components |-> updated,
              file       |-> SaveComponentToDisk(updated, fileNow, fault).file,
              pc         |-> "idle",
              ret        |-> "overwritten"]

\* one run of the body of refreshComponentFromDB up to the prompt: it ends
\* waiting for the operator (pc "prompt") or has overwritten the local state
RefreshComponentFromDB(type, comps, fileNow, rows, fault) ==
    LET same    == [components |-> comps, file |-> fileNow, pc |-> "idle", ret |-> "nokey"]
        fetched == Fetch(rows, fault)
        updated == Updated(fetched.res)
    IN  IF ~HasPrimaryKey(type) THEN same
        ELSE IF fetched.err THEN [same EXCEPT !.ret = "fetcherror"]
        ELSE IF DOMAIN updated = {} /\ DOMAIN comps /= {}
             THEN [same EXCEPT !.pc = "prompt", !.ret = "prompt"]
        ELSE [components |-> updated,
              file       |-> SaveComponentToDisk(updated, fileNow, fault).file,
              pc         |-> "idle",
              ret        |-> "overwritten"]

\* the "n" case of the prompt: the fetched (empty) set replaces m.components and
\* is saved, the error of the write being discarded
RefreshAnswerNo(type, comps, fileNow, rows, fault) ==
    [components |-> EmptyMap,
     file       |-> SaveComponentToDisk(EmptyMap, fileNow, fault).file,
     pc         |-> "idle",
     ret        |-> "overwritten"]

\* a variant of the default case below that takes every answer but "y" for "n"
RefreshAnswerOtherAsNo(type, comps, fileNow, rows, fault) ==
    RefreshAnswerNo(type, comps, fileNow, rows, fault)

\* a variant of the default case below that prints and returns
RefreshAnswerOtherReturns(type, comps, fileNow, rows, fault) ==
    [components |-> comps, file |-> fileNow, pc |-> "idle", ret |-> "invalid"]

\* the default case of the prompt: "Invalid input" is printed and
\* refreshComponentFromDB calls itself
RefreshAnswerOther(type, comps, fileNow, rows, fault) ==
    RefreshComponentFromDB(type, comps, fileNow, rows, fault)

\* a variant of UpdateComponent below without the check that id is a key
UpdateComponentUnchecked(type, comps, rows, id, value, fault) ==
    LET mem == Put(comps, id, value)
    IN  IF value = EmptyValue
        THEN [components |-> mem, dbRows |-> rows, log |-> <<>>, ret |-> "error"]
        ELSE [components |-> mem, dbRows |-> rows,
              log |-> <<[op |-> "UPDATE", key |-> Str(id), ok |-> fault.kind /= "update"]>>,
              ret |-> IF fault.kind = "update" THEN "error" ELSE "nil"]

\* the rows an UPDATE ... WHERE pk = id changes to the new value
UpdateRows(type, rows, id, value) ==
    LET col == ColumnValue(type, id)
    IN  IF col.ok /\ col.key \in DOMAIN rows THEN Put(rows, col.key, value) ELSE rows

\* UpdateComponent(id, value): the map is written first, then the UPDATE is
\* built from the value's columns and executed
UpdateComponent(type, comps, rows, id, value, fault) ==
    LET mem == Put(comps, id, value)
    IN  IF id \notin DOMAIN comps
        THEN [components |-> comps, dbRows |-> rows, log |-> <<>>, ret |-> "notfound"]
        ELSE IF value = EmptyValue
        THEN [components |-> mem, dbRows |-> rows, log |-> <<>>, ret |-> "error"]
        ELSE IF fault.kind = "update"
        THEN [components |-> mem, dbRows |-> rows,
              log |-> <<Stmt("UPDATE", Str(id), FALSE)>>, ret |-> "error"]
        ELSE [components |-> mem, dbRows |-> UpdateRows(type, rows, id, value),
              log |-> <<Stmt("UPDATE", Str(id), TRUE)>>, ret |-> "nil"]

-----------------------------------------------------------------------------
(* The component API as a state machine *)

\* the ids UpdateComponent is called with: a number and a name, each of which
\* may or may not be a key of m.components
UpdateIds == { <<"0">>, <<"a">> }

\* what the operator may type at the conflict prompt
Inputs == {"y", "n", "", "Y", "yes"}

Snapshot == [components |-> components, file |-> file, dbRows |-> dbRows, prompts |-> prompts]

\* the failures a call may meet: none once MaxFaults failures have happened
Allowed(fs) == IF faults < MaxFaults THEN fs ELSE {NoFault}

\* the failure that made a difference to a call's outcome, if any
Fired(fault, r, r0) == IF r = r0 THEN NoFault ELSE fault

Call(op, ret, path, id, input, fault) ==
    [op |-> op, ret |-> ret, path |-> path, id |-> id, input |-> input, fault |-> fault]

Count(fault) == IF fault = NoFault THEN faults ELSE faults + 1

FileContents ==
    {[k \in S |-> FileValue] : S \in {T \in SUBSET KeyStrings : Cardinality(T) <= MaxRows}}

TableKeys(type) ==
    IF type = "Int" THEN {Int64(n) : n \in KeyInts} ELSE {Str(s) : s \in KeyStrings}

TableContents(type) ==
    {[k \in S |-> RowValue] : S \in {T \in SUBSET TableKeys(type) : Cardinality(T) <= MaxRows}}

\* the reconciler at rest, with nothing declared and no table
RecIdle ==
    /\ fields = <<>> /\ table = <<>> /\ schemas = <<>>
    /\ phase = "idle" /\ step = 0 /\ pending = <<>>
    /\ pass = "none" /\ trail = <<>> /\ prevClean = FALSE

\* the startup loop has not begun
InitIdle ==
    /\ registry = {} /\ dependsOn = <<>> /\ references = <<>> /\ existing = {}
    /\ current = "" /\ retryCount = 0 /\ pings = <<>> /\ sleeps = 0
    /\ initPc = "idle" /\ created = <<>>

\* no model is being registered
NewIdle == registered = "none" /\ compared = <<>>

\* validate() is not running
\* the nil error, and the error a broken rule raises for a field
NoError == [rule |-> "nil", field |-> ""]

ValIdle ==
    /\ workers = <<>> /\ fieldNames = {} /\ firstErr = NoError
    /\ primaryKeyCount = 0 /\ wg = 0 /\ mainPc = "idle"

\* no query is being built
QueryIdle == query = <<>> /\ chain = <<>> /\ result = <<>>

\* no goroutine is at the component map
RaceIdle == reader = <<>> /\ writer = <<>>

\* syncTable is not running
TableIdle ==
    /\ syncComponentsEnabled = FALSE /\ initialised = FALSE
    /\ statements = <<>> /\ tablePc = "idle"

OtherIdle == ValIdle /\ QueryIdle /\ RaceIdle /\ TableIdle

CompInit ==
    /\ pkType \in {"Int", "VarChar"}
    /\ file \in {NoFile} \cup {FileOf(m) : m \in FileContents}
    /\ components = LoadComponentFromDisk(EmptyMap, file, NoFault)
    /\ dbRows \in TableContents(pkType)
    /\ pc = "idle"
    /\ prompts = 0
    /\ last = Call("init", "nil", "", <<>>, "", NoFault)
    /\ pre = [components |-> components, file |-> file, dbRows |-> dbRows, prompts |-> 0]
    /\ log = <<>>
    /\ calls = 0
    /\ faults = 0
    /\ RecIdle
    /\ syncDatabaseEnabled = FALSE
    /\ InitIdle
    /\ NewIdle /\ OtherIdle

Load ==
    /\ pc = "idle" /\ calls < MaxCalls
    /\ \E fault \in Allowed({NoFault, [kind |-> "read", key |-> Str(<<>>)]}) :
       \E r \in {LoadComponentFromDisk(components, file, fault)},
          r0 \in {LoadComponentFromDisk(components, file, NoFault)} :
            /\ components' = r
            /\ last' = Call("load", "nil", "", <<>>, "", Fired(fault, r, r0))
            /\ faults' = Count(Fired(fault, r, r0))
    /\ pre' = Snapshot
    /\ log' = <<>>
    /\ calls' = calls + 1
    /\ UNCHANGED <<pkType, file, dbRows, pc, prompts>>
    /\ UNCHANGED <<recVars, startVars>>

Sync ==
    /\ pc = "idle" /\ calls < MaxCalls
    /\ \E order \in Orders(ActiveKeys(pkType, components, dbRows)),
          fault \in Allowed(Faults(ActiveKeys(pkType, components, dbRows),
                                   StaleKeys(components, dbRows))) :
       \E r \in {SyncComponentWithDB(pkType, components, file, dbRows, order, fault)},
          r0 \in {SyncComponentWithDB(pkType, components, file, dbRows, order, NoFault)} :
            /\ components' = r.components
            /\ file' = r.file
            /\ dbRows' = r.dbRows
            /\ log' = r.log
            /\ last' = Call("sync", r.ret, r.path, <<>>, "", Fired(fault, r, r0))
            /\ faults' = Count(Fired(fault, r, r0))
    /\ pre' = Snapshot
    /\ calls' = calls + 1
    /\ UNCHANGED <<pkType, pc, prompts>>
    /\ UNCHANGED <<recVars, startVars>>

Refresh ==
    /\ pc = "idle" /\ calls < MaxCalls
    /\ \E fault \in Allowed(Faults({}, {})) :
       \E r \in {RefreshComponentFromDB(pkType, components, file, dbRows, fault)},
          r0 \in {RefreshComponentFromDB(pkType, components, file, dbRows, NoFault)} :
            /\ components' = r.components
            /\ file' = r.file
            /\ pc' = r.pc
            /\ prompts' = IF r.pc = "prompt" THEN 1 ELSE 0
            /\ last' = Call("refresh", r.ret, "", <<>>, "", Fired(fault, r, r0))
            /\ faults' = Count(Fired(fault, r, r0))
    /\ pre' = Snapshot
    /\ log' = <<>>
    /\ calls' = calls + 1
    /\ UNCHANGED <<pkType, dbRows>>
    /\ UNCHANGED <<recVars, startVars>>

\* the operator answers "y": SyncComponentWithDB runs, its error is dropped
AnswerYes ==
    /\ pc = "prompt"
    /\ \E order \in Orders(ActiveKeys(pkType, components, dbRows)),
          fault \in Allowed(Faults(ActiveKeys(pkType, components, dbRows),
                                   StaleKeys(components, dbRows))) :
       \E r \in {SyncComponentWithDB(pkType, components, file, dbRows, order, fault)},
          r0 \in {SyncComponentWithDB(pkType, components, file, dbRows, order, NoFault)} :
            /\ components' = r.components
            /\ file' = r.file
            /\ dbRows' = r.dbRows
            /\ log' = r.log
            /\ last' = Call("answer", r.ret, r.path, <<>>, "y", Fired(fault, r, r0))
            /\ faults' = Count(Fired(fault, r, r0))
    /\ pc' = "idle"
    /\ pre' = Snapshot
    /\ UNCHANGED <<pkType, prompts, calls>>
    /\ UNCHANGED <<recVars, startVars>>

\* the operator answers "n": the (empty) fetched set replaces the local state
AnswerNo ==
    /\ pc = "prompt"
    /\ \E fault \in Allowed({NoFault, [kind |-> "save", key |-> Str(<<>>)]}) :
       \E r \in {RefreshAnswerNo(pkType, components, file, dbRows, fault)},
          r0 \in {RefreshAnswerNo(pkType, components, file, dbRows, NoFault)} :
            /\ components' = r.components
            /\ file' = r.file
            /\ pc' = r.pc
            /\ last' = Call("answer", r.ret, "", <<>>, "n", Fired(fault, r, r0))
            /\ faults' = Count(Fired(fault, r, r0))
    /\ pre' = Snapshot
    /\ log' = <<>>
    /\ UNCHANGED <<pkType, dbRows, prompts, calls>>
    /\ UNCHANGED <<recVars, startVars>>

\* any other answer: refreshComponentFromDB calls itself
AnswerOther ==
    /\ pc = "prompt" /\ prompts < MaxPrompts
    /\ \E input \in Inputs \ {"y", "n"}, fault \in Allowed(Faults({}, {})) :
       \E r \in {RefreshAnswerOther(pkType, components, file, dbRows, fault)},
          r0 \in {RefreshAnswerOther(pkType, components, file, dbRows, NoFault)} :
            /\ components' = r.components
            /\ file' = r.file
            /\ pc' = r.pc
            /\ prompts' = IF r.pc = "prompt" THEN prompts + 1 ELSE prompts
            /\ last' = Call("answer", r.ret, "", <<>>, input, Fired(fault, r, r0))
            /\ faults' = Count(Fired(fault, r, r0))
    /\ pre' = Snapshot
    /\ log' = <<>>
    /\ UNCHANGED <<pkType, dbRows, calls>>
    /\ UNCHANGED <<recVars, startVars>>

Update ==
    /\ pc = "idle" /\ calls < MaxCalls
    /\ \E id \in UpdateIds, value \in {NewValue, EmptyValue},
          fault \in Allowed({NoFault, [kind |-> "update", key |-> Str(<<>>)]}) :
       \E r \in {UpdateComponent(pkType, components, dbRows, id, value, fault)},
          r0 \in {UpdateComponent(pkType, components, dbRows, id, value, NoFault)} :
            /\ components' = r.components
            /\ dbRows' = r.dbRows
            /\ log' = r.log
            /\ last' = Call("update", r.ret, "", id, "", Fired(fault, r, r0))
            /\ faults' = Count(Fired(fault, r, r0))
    /\ pre' = Snapshot
    /\ calls' = calls + 1
    /\ UNCHANGED <<pkType, file, pc, prompts>>
    /\ UNCHANGED <<recVars, startVars>>

CompNext == Load \/ Sync \/ Refresh \/ AnswerYes \/ AnswerNo \/ AnswerOther \/ Update

SpecComp == CompInit /\ [][CompNext]_vars

-----------------------------------------------------------------------------
(* Declared fields and the SQL the code renders for them *)

\* A SQL type text is a sequence of tokens: a word, "(", ")", "," or a digit.
\* Default values and the operator's answers are sequences of characters.

TableName == "t"

\* fieldType.string(): the SQL type a field type is rendered as; every type
\* without a case of its own is rendered TEXT
FieldTypeString(t) ==
    CASE t \in {"String", "VarChar"} -> <<"VARCHAR">>
      [] t = "Text"      -> <<"TEXT">>
      [] t = "Int"       -> <<"INT">>
      [] t = "Float"     -> <<"FLOAT">>
      [] t = "Decimal"   -> <<"DECIMAL", "(", "1", "0", ",", "2", ")">>
      [] t = "Bool"      -> <<"BOOLEAN">>
      [] t = "TinyInt"   -> <<"TINYINT">>
      [] t = "Date"      -> <<"DATE">>
      [] t = "Time"      -> <<"TIME">>
      [] t = "Timestamp" -> <<"TIMESTAMP">>
      [] t = "JSON"      -> <<"JSON">>
      [] t = "Enum"      -> <<"ENUM">>
      [] t = "Binary"    -> <<"BLOB">>
      [] t = "UUID"      -> <<"CHAR", "(", "3", "6", ")">>
      [] OTHER           -> <<"TEXT">>

\* fieldType.IsNumeric()
IsNumeric(t) == t \in {"Bool", "Int", "TinyInt", "Float", "Decimal"}

\* fieldType.IsValueCompatible(val); on the default values of this model
\* strconv.ParseFloat accepts what strconv.Atoi accepts
IsValueCompatible(t, val) ==
    CASE t \in {"Int", "TinyInt", "SmallInt", "MediumInt", "BigInt"} -> Atoi(val).ok
      [] t \in {"Float", "Decimal", "Double", "Real"} -> Atoi(val).ok
      [] t = "Bool" -> val \in {<<"0">>, <<"1">>, <<"t", "r", "u", "e">>, <<"f", "a", "l", "s", "e">>}
      [] OTHER -> TRUE

NoIndex == [PrimaryKey |-> FALSE, Unique |-> FALSE, Index |-> FALSE]

\* CreateField() followed by the type builder: a nullable column without
\* default or index; definition is the literal list of an ENUM or SET: "nil"
\* for no list, "empty" for a list without values, "values" otherwise
CreateField(name, t, lenth) ==
    [name |-> name, t |-> t, lenth |-> lenth, nullable |-> TRUE, defaultValue |-> <<>>,
     autoIncrement |-> FALSE, index |-> NoIndex, definition |-> "nil"]

\* Field.Validate(): the rules on lengths, auto increment, keys and defaults
\* (the field names of this model are letters)
FieldValidate(f) ==
    /\ f.t = "TinyInt" => f.lenth >= 3
    /\ f.t = "Bool" => f.lenth \in {0, 1}
    /\ f.t = "SmallInt" => f.lenth >= 5
    /\ f.t = "MediumInt" => f.lenth >= 6
    /\ f.t \in {"Int", "BigInt", "VarChar", "Char", "Decimal"} => f.lenth >= 1
    /\ f.t \in {"Text", "Blob", "JSON", "Date", "Time", "Timestamp"} => f.lenth = 0
    /\ f.autoIncrement => IsNumeric(f.t)
    /\ f.index.PrimaryKey => ~f.nullable
    /\ (f.index.Unique \/ f.index.Index) => f.t \notin {"Text", "Blob"}
    /\ f.defaultValue /= <<>> => IsValueCompatible(f.t, f.defaultValue)

\* a variant of the ENUM check below that checks nothing
DefinitionUnchecked(f) == TRUE

\* the ENUM check of meta.validate(): an ENUM needs a list, and a list that is
\* there needs values
DefinitionValid(f) ==
    /\ ~(f.t = "Enum" /\ f.definition = "nil")
    /\ f.definition /= "empty"

\* f.t != FieldTypes.Int && f.t != FieldTypes.VarChar: the types of a primary key
PrimaryType(t) == t \in {"Int", "VarChar"}

\* a variant of the check below that refuses no count
AnyPrimaryCount(n) == TRUE

\* primaryKeyCount > 1 is the only count refused
PrimaryCountValid(n) == ~(n > 1)

\* meta.validate(): no duplicate names, the ENUM check, the rules on primary
\* keys and auto increment, every field valid, at most one primary key
MetaValidate(fs) ==
    /\ \A i, j \in 1..Len(fs) : i /= j => fs[i].name /= fs[j].name
    /\ \A i \in 1..Len(fs) :
        /\ DefinitionValid(fs[i])
        /\ fs[i].index.PrimaryKey =>
            /\ ~fs[i].index.Unique
            /\ PrimaryType(fs[i].t)
            /\ ~fs[i].nullable
            /\ fs[i].defaultValue = <<>>
        /\ fs[i].autoIncrement =>
            /\ fs[i].index.PrimaryKey
            /\ Head(FieldTypeString(fs[i].t)) = "INT"
        /\ FieldValidate(fs[i])
    /\ PrimaryCountValid(Cardinality({i \in 1..Len(fs) : fs[i].index.PrimaryKey}))

\* the type of columnDefinition(): fieldType.string(), then "(length)" when the
\* length is positive (the reconciled models declare no ENUM or SET field)
TypeText(f) ==
    FieldTypeString(f.t) \o
        (IF f.lenth > 0 THEN <<"(">> \o NatToString(f.lenth) \o <<")">> ELSE <<>>)

\* the DEFAULT clause of columnDefinition(): quoted for String and Text,
\* TRUE or FALSE for Bool, the bare value otherwise
DefaultClause(f) ==
    IF f.defaultValue = <<>> THEN [kind |-> "none", text |-> <<>>]
    ELSE IF f.t \in {"String", "Text"} THEN [kind |-> "quoted", text |-> f.defaultValue]
    ELSE IF f.t = "Bool"
         THEN [kind |-> "bare",
               text |-> IF f.defaultValue \in {<<"t", "r", "u", "e">>, <<"1">>}
                        THEN <<"TRUE">> ELSE <<"FALSE">>]
    ELSE [kind |-> "bare", text |-> f.defaultValue]

\* Field.columnDefinition(): name, type, NULL or NOT NULL, DEFAULT and
\* AUTO_INCREMENT
ColumnDefinition(f) ==
    [name |-> f.name, type |-> TypeText(f), null |-> f.nullable,
     default |-> DefaultClause(f), autoIncrement |-> f.autoIncrement]

\* the name of an index, as the parts that "_" separates
PrimaryName == <<"PRIMARY">>

\* Field.addIndexStatement(): the indexes ADDed with a new column; MySQL names
\* a primary key PRIMARY whatever name the statement gives
AddIndexStatement(f) ==
    (IF f.index.PrimaryKey THEN {PrimaryName} ELSE {})
        \cup (IF f.index.Index THEN {<<"idx", TableName, f.name>>} ELSE {})
        \cup (IF f.index.Unique THEN {<<"unq", TableName, f.name>>} ELSE {})

-----------------------------------------------------------------------------
(* The MySQL table, as the statements of the code change it *)

Lower(tok) ==
    CASE tok = "VARCHAR" -> "varchar" [] tok = "TEXT" -> "text" [] tok = "INT" -> "int"
      [] tok = "BOOLEAN" -> "boolean" [] tok = "TINYINT" -> "tinyint" [] tok = "CHAR" -> "char"
      [] tok = "DECIMAL" -> "decimal" [] tok = "FLOAT" -> "float" [] OTHER -> tok

\* strings.ToUpper on a token
ToUpper(tok) ==
    CASE tok = "varchar" -> "VARCHAR" [] tok = "text" -> "TEXT" [] tok = "int" -> "INT"
      [] tok = "boolean" -> "BOOLEAN" [] tok = "tinyint" -> "TINYINT" [] tok = "char" -> "CHAR"
      [] tok = "decimal" -> "DECIMAL" [] tok = "float" -> "FLOAT" [] OTHER -> tok

IsWord(tok) == tok \notin {"(", ")", ","} /\ DigitValue(tok) < 0

\* the type texts MySQL accepts: WORD, WORD(n) or WORD(n,m); VARCHAR needs a length
WellFormedType(type) ==
    /\ type /= <<>> /\ IsWord(type[1])
    /\ \/ Len(type) = 1 /\ type /= <<"VARCHAR">>
       \/ /\ Len(type) >= 4 /\ type[2] = "(" /\ type[Len(type)] = ")"
          /\ \/ AllDigits(SubSeq(type, 3, Len(type) - 1))
             \/ \E c \in 4..(Len(type) - 2) :
                 /\ type[c] = ","
                 /\ AllDigits(SubSeq(type, 3, c - 1))
                 /\ AllDigits(SubSeq(type, c + 1, Len(type) - 1))

\* the Type SHOW COLUMNS reports: lower case with the display width kept, and
\* BOOLEAN as its synonym tinyint(1)
ReportedType(type) ==
    IF type = <<"BOOLEAN">> THEN <<"tinyint", "(", "1", ")">>
    ELSE [i \in 1..Len(type) |-> Lower(type[i])]

\* the Default SHOW COLUMNS reports for a DEFAULT clause: a quoted text or a
\* number as written, TRUE as 1 and FALSE as 0; a bare word is no literal
StoredDefault(clause) ==
    CASE clause.kind = "none" -> [ok |-> TRUE, val |-> <<>>]
      [] clause.kind = "quoted" -> [ok |-> TRUE, val |-> clause.text]
      [] clause.text \in {<<"TRUE">>, <<"t", "r", "u", "e">>} -> [ok |-> TRUE, val |-> <<"1">>]
      [] clause.text \in {<<"FALSE">>, <<"f", "a", "l", "s", "e">>} -> [ok |-> TRUE, val |-> <<"0">>]
      [] OTHER -> [ok |-> Atoi(clause.text).ok, val |-> clause.text]

\* the column a definition creates
NewColumn(def, names) ==
    [field   |-> def.name,
     type    |-> ReportedType(def.type),
     null    |-> IF def.null THEN "YES" ELSE "NO",
     default |-> StoredDefault(def.default).val,
     extra   |-> IF def.autoIncrement THEN "auto_increment" ELSE "",
     indexes |-> names]

ColumnNames(t) == {t[i].field : i \in 1..Len(t)}

IndexNames(t) == UNION {t[i].indexes : i \in 1..Len(t)}

ColumnAt(t, name) == CHOOSE i \in 1..Len(t) : t[i].field = name

\* a definition MySQL rejects: a malformed type, a default that is no
\* literal, AUTO_INCREMENT on a column that is no key
BadDefinition(def, names) ==
    \/ ~WellFormedType(def.type)
    \/ ~StoredDefault(def.default).ok
    \/ def.autoIncrement /\ names = {}

\* ALTER TABLE t ADD <definition>, ADD <indexes>
ExecAddColumn(t, def, names, fail) ==
    LET err == \/ fail
               \/ BadDefinition(def, names)
               \/ def.name \in ColumnNames(t)
               \/ names \cap IndexNames(t) /= {}
    IN  [ok |-> ~err, table |-> IF err THEN t ELSE Append(t, NewColumn(def, names))]

\* ALTER TABLE t CHANGE name <definition>: the indexes of the column stay
ExecChangeColumn(t, name, def, fail) ==
    LET err == \/ fail
               \/ name \notin ColumnNames(t)
               \/ BadDefinition(def, t[ColumnAt(t, name)].indexes)
    IN  [ok |-> ~err,
         table |-> IF err THEN t
                   ELSE [t EXCEPT ![ColumnAt(t, name)] =
                            NewColumn(def, t[ColumnAt(t, name)].indexes)]]

\* ALTER TABLE t DROP name: the last column of a table cannot be dropped
ExecDropColumn(t, name, fail) ==
    LET err == fail \/ name \notin ColumnNames(t) \/ Len(t) = 1
    IN  [ok |-> ~err,
         table |-> IF err THEN t
                   ELSE SubSeq(t, 1, ColumnAt(t, name) - 1)
                            \o SubSeq(t, ColumnAt(t, name) + 1, Len(t))]

\* ALTER TABLE t ADD PRIMARY KEY / UNIQUE / INDEX index (name): index names
\* are unique in a table and a primary key column is NOT NULL
ExecAddIndex(t, name, index, fail) ==
    LET err == \/ fail
               \/ name \notin ColumnNames(t)
               \/ index \in IndexNames(t)
               \/ index = PrimaryName /\ t[ColumnAt(t, name)].null = "YES"
    IN  [ok |-> ~err,
         table |-> IF err THEN t
                   ELSE [t EXCEPT ![ColumnAt(t, name)].indexes = @ \cup {index}]]

\* ALTER TABLE t DROP PRIMARY KEY / DROP INDEX index
ExecDropIndex(t, index, fail) ==
    LET err == fail \/ index \notin IndexNames(t)
    IN  [ok |-> ~err,
         table |-> IF err THEN t
                   ELSE [i \in 1..Len(t) |-> [t[i] EXCEPT !.indexes = @ \ {index}]]]

-----------------------------------------------------------------------------
(* syncModelSchema and the checks of syncTableSchema *)

\* syncModelSchema: one schema per column from SHOW COLUMNS, and its indexes
\* classified by name: PRIMARY, and the part before the first "_"
SyncModelSchema(t) ==
    [i \in 1..Len(t) |->
        [field      |-> t[i].field,
         fieldType  |-> t[i].type,
         nullable   |-> t[i].null,
         defaultVal |-> t[i].default,
         extra      |-> t[i].extra,
         isprimary  |-> PrimaryName \in t[i].indexes,
         isindex    |-> \E n \in t[i].indexes : n /= PrimaryName /\ Head(n) = "idx",
         isunique   |-> \E n \in t[i].indexes : n /= PrimaryName /\ Head(n) = "unq"]]

\* schema.parseSQLType(): upper case, then ^([A-Z]+)\((\d+)\)$ gives the base
\* type and the length; any other text is returned whole with length 0
ParseSQLType(sc) ==
    LET sqlType == [i \in 1..Len(sc.fieldType) |-> ToUpper(sc.fieldType[i])]
        n       == Len(sqlType)
    IN  IF /\ n >= 4 /\ IsWord(sqlType[1]) /\ sqlType[2] = "(" /\ sqlType[n] = ")"
           /\ AllDigits(SubSeq(sqlType, 3, n - 1))
        THEN [type |-> <<sqlType[1]>>, length |-> Atoi(SubSeq(sqlType, 3, n - 1)).n]
        ELSE [type |-> sqlType, length |-> 0]

\* strings.Split(s, "(")[0]
BeforeParen(s) ==
    IF \E i \in 1..Len(s) : s[i] = "("
    THEN SubSeq(s, 1, (CHOOSE i \in 1..Len(s) : s[i] = "(" /\ \A j \in 1..(i - 1) : s[j] /= "(") - 1)
    ELSE s

\* Field.Compare(fieldTypeStr): the field types a column type is taken to
\* agree with.  The ENUM case answers true only for the text ENUM('A',...) with
\* the field's values; no column type here has that form, so it answers false
\* like the last branch.
Compare(f, fieldTypeStr) ==
    LET type == BeforeParen(fieldTypeStr)
    IN  CASE type = <<"TINYINT">> -> f.t \in {"TinyInt", "Bool"}
          [] type = <<"SMALLINT">> -> f.t = "SmallInt"
          [] type = <<"MEDIUMINT">> -> f.t = "MediumInt"
          [] type \in {<<"INT">>, <<"INTEGER">>} -> f.t = "Int"
          [] type = <<"BIGINT">> -> f.t = "BigInt"
          [] type = <<"VARCHAR">> -> f.t \in {"VarChar", "String"}
          [] type = <<"CHAR">> -> f.t \in {"Char", "String"}
          [] type = <<"TEXT">> -> f.t \in {"Text", "String"}
          [] type = <<"LONGTEXT">> -> f.t \in {"LongText", "JSON"}
          [] type \in {<<"BOOL">>, <<"BOOLEAN">>} -> f.t \in {"Bool", "TinyInt"}
          [] type = <<"DECIMAL">> -> f.t = "Decimal"
          [] type = <<"FLOAT">> -> f.t = "Float"
          [] type \in {<<"DOUBLE">>, <<"REAL">>} -> f.t \in {"Double", "Real"}
          [] type = <<"JSON">> -> f.t = "JSON"
          [] type = <<"BLOB">> -> f.t = "Blob"
          [] type = <<"DATE">> -> f.t = "Date"
          [] type = <<"TIME">> -> f.t = "Time"
          [] type = <<"TIMESTAMP">> -> f.t = "Timestamp"
          [] type = <<"UUID">> -> f.t = "UUID"
          [] OTHER -> FALSE

\* a variant of the length check below without the exception for 1 and 0
LengthDiffers(field_length, lenth) == field_length /= lenth

\* !(field_length == 1 && field.Length == 0) && field_length != field.Length
LengthMismatch(field_length, lenth) ==
    ~(field_length = 1 /\ lenth = 0) /\ field_length /= lenth

\* the reasons for which syncTableSchema wants a column modified
ColumnDrift(f, sc) ==
    LET parsed == ParseSQLType(sc)
    IN  (IF ~Compare(f, parsed.type) THEN {"type"} ELSE {})
        \cup (IF LengthMismatch(parsed.length, f.lenth) THEN {"length"} ELSE {})
        \cup (IF sc.defaultVal /= f.defaultValue /\ f.t /= "Timestamp" THEN {"default"} ELSE {})
        \cup (IF (sc.nullable = "YES" /\ ~f.nullable) \/ (sc.nullable = "NO" /\ f.nullable)
              THEN {"nullable"} ELSE {})
        \cup (IF (sc.extra = "auto_increment" /\ ~f.autoIncrement) \/ (sc.extra = "" /\ f.autoIncrement)
              THEN {"auto_increment"} ELSE {})

Action(kind, name) == [kind |-> kind, field |-> name]

SchemaOf(scs, name) == scs[CHOOSE i \in 1..Len(scs) : scs[i].field = name]

\* the prompts one iteration of the field loop prints, in order: the add of a
\* missing column, or the modify and the three index checks of an existing one
FieldActions(f, scs) ==
    IF \A i \in 1..Len(scs) : scs[i].field /= f.name
    THEN <<Action("add", f.name)>>
    ELSE LET sc == SchemaOf(scs, f.name)
         IN  (IF ColumnDrift(f, sc) /= {} THEN <<Action("modify", f.name)>> ELSE <<>>)
             \o (IF sc.isunique /= f.index.Unique THEN <<Action("unique", f.name)>> ELSE <<>>)
             \o (IF sc.isprimary /= f.index.PrimaryKey THEN <<Action("primary", f.name)>> ELSE <<>>)
             \o (IF sc.isindex /= f.index.Index THEN <<Action("index", f.name)>> ELSE <<>>)

\* a variant of the check below that proposes the drop of every column
StaleActionAlways(sc, fs) == <<Action("drop", sc.field)>>

\* the prompt of the loop over m.schemas for a column no field declares
StaleAction(sc, fs) ==
    IF \A i \in 1..Len(fs) : fs[i].name /= sc.field THEN <<Action("drop", sc.field)>> ELSE <<>>

RECURSIVE FieldLoop(_, _, _)
FieldLoop(fs, i, scs) ==
    IF i > Len(fs) THEN <<>> ELSE FieldActions(fs[i], scs) \o FieldLoop(fs, i + 1, scs)

RECURSIVE StaleLoop(_, _, _)
StaleLoop(scs, i, fs) ==
    IF i > Len(scs) THEN <<>> ELSE StaleAction(scs[i], fs) \o StaleLoop(scs, i + 1, fs)

\* every action one pass of syncTableSchema proposes, in the order of its
\* prompts: all checks depend on the fields and on the snapshot only
Proposals(fs, scs) == FieldLoop(fs, 1, scs) \o StaleLoop(scs, 1, fs)

-----------------------------------------------------------------------------
(* The operator's answers and the statements that follow them *)

Whitespace == {" ", "\t", "\n", "\r"}

\* strings.TrimSpace
RECURSIVE TrimSpace(_)
TrimSpace(s) ==
    IF s = <<>> THEN s
    ELSE IF Head(s) \in Whitespace THEN TrimSpace(Tail(s))
    ELSE IF s[Len(s)] \in Whitespace THEN TrimSpace(SubSeq(s, 1, Len(s) - 1))
    ELSE s

\* what reader.ReadString('\n') may return: the line typed, or at the end of
\* the input what was typed so far with an error
Answers ==
    { [text |-> <<"y", "\n">>, err |-> FALSE],
      [text |-> <<" ", "y", " ", "\r", "\n">>, err |-> FALSE],
      [text |-> <<"n", "\n">>, err |-> FALSE],
      [text |-> <<"Y", "\n">>, err |-> FALSE],
      [text |-> <<"y">>, err |-> TRUE] }

\* a variant of the test below that takes every answer but "n" for a yes
ConfirmedUnlessNo(input) == TrimSpace(input.text) /= <<"n">>

\* strings.TrimSpace(input) == "y", the read error being ignored
Confirmed(input) == TrimSpace(input.text) = <<"y">>

\* err == nil && strings.TrimSpace(input) == "y"
ConfirmedDrop(input) == ~input.err /\ Confirmed(input)

Ask(p, yes) == [ev |-> "ask", kind |-> p.kind, field |-> p.field, answer |-> <<>>, ok |-> yes]

Ddl(kind, name, answer, ok) ==
    [ev |-> "ddl", kind |-> kind, field |-> name, answer |-> answer, ok |-> ok]

FieldOf(fs, name) == fs[CHOOSE i \in 1..Len(fs) : fs[i].name = name]

\* what answering a prompt leaves: the table, the pending adds, the events
\* and whether the process panicked
Answered(t, pend, events, panic) ==
    [table |-> t, pending |-> pend, events |-> events, panic |-> panic]

\* a variant of the add below that executes the ALTER TABLE at once
AddAtOnce(p, input, f, t, pend, fail) ==
    LET r == ExecAddColumn(t, ColumnDefinition(f), AddIndexStatement(f), fail)
    IN  IF ~Confirmed(input) THEN Answered(t, pend, <<Ask(p, FALSE)>>, FALSE)
        ELSE Answered(r.table, pend,
                      <<Ask(p, TRUE), Ddl("add", f.name, TrimSpace(input.text), r.ok)>>, ~r.ok)

\* "Field not in DB. Add?": a confirmed field is queued in pendingAddFields
QueueAdd(p, input, f, t, pend, fail) ==
    IF ~Confirmed(input) THEN Answered(t, pend, <<Ask(p, FALSE)>>, FALSE)
    ELSE Answered(t, Append(pend, [field |-> f.name, answer |-> TrimSpace(input.text)]),
                  <<Ask(p, TRUE)>>, FALSE)

\* a variant of the modify below that applies the change without a prompt
ModifyUnasked(p, input, f, t, pend, fail) ==
    LET r == ExecChangeColumn(t, f.name, ColumnDefinition(f), fail)
    IN  Answered(r.table, pend, <<Ddl("modify", f.name, <<"y">>, r.ok)>>, ~r.ok)

\* a variant of the modify below in which a failed ALTER TABLE is printed and
\* the pass goes on
ModifyFailureLogged(p, input, f, t, pend, fail) ==
    LET r == ExecChangeColumn(t, f.name, ColumnDefinition(f), fail)
    IN  IF ~Confirmed(input) THEN Answered(t, pend, <<Ask(p, FALSE)>>, FALSE)
        ELSE Answered(r.table, pend,
                      <<Ask(p, TRUE), Ddl("modify", f.name, TrimSpace(input.text), r.ok)>>, FALSE)

\* "Field requires update. Proceed?": modifyDBField panics when the ALTER
\* TABLE ... CHANGE fails
ConfirmModify(p, input, f, t, pend, fail) ==
    LET r == ExecChangeColumn(t, f.name, ColumnDefinition(f), fail)
    IN  IF ~Confirmed(input) THEN Answered(t, pend, <<Ask(p, FALSE)>>, FALSE)
        ELSE Answered(r.table, pend,
                      <<Ask(p, TRUE), Ddl("modify", f.name, TrimSpace(input.text), r.ok)>>, ~r.ok)

\* the index the sync functions add or drop: syncPrimaryKey the primary key,
\* syncUniqueIndex unq_<field>, syncIndex idx_<field>
SyncedIndex(kind, name) ==
    CASE kind = "primary" -> PrimaryName
      [] kind = "unique" -> <<"unq", name>>
      [] OTHER -> <<"idx", name>>

\* a variant of the index prompt below in which a refusal ends the pass
ConfirmSyncOrAbort(p, input, f, has, t, pend, fail) ==
    LET r == IF has THEN ExecDropIndex(t, SyncedIndex(p.kind, f.name), fail)
             ELSE ExecAddIndex(t, f.name, SyncedIndex(p.kind, f.name), fail)
    IN  IF ~Confirmed(input) THEN Answered(t, pend, <<Ask(p, FALSE)>>, TRUE)
        ELSE Answered(r.table, pend,
                      <<Ask(p, TRUE), Ddl(p.kind, f.name, TrimSpace(input.text), r.ok)>>, FALSE)

\* a variant of the index prompt below in which a failed statement panics
ConfirmSyncFatal(p, input, f, has, t, pend, fail) ==
    LET r == IF has THEN ExecDropIndex(t, SyncedIndex(p.kind, f.name), fail)
             ELSE ExecAddIndex(t, f.name, SyncedIndex(p.kind, f.name), fail)
    IN  IF ~Confirmed(input) THEN Answered(t, pend, <<Ask(p, FALSE)>>, FALSE)
        ELSE Answered(r.table, pend,
                      <<Ask(p, TRUE), Ddl(p.kind, f.name, TrimSpace(input.text), r.ok)>>, ~r.ok)

\* "... mismatch. Sync?": syncUniqueIndex, syncPrimaryKey or syncIndex drops
\* the index the snapshot has and the field lacks, or adds the one the field
\* has and the snapshot lacks; a failure is printed
ConfirmSync(p, input, f, has, t, pend, fail) ==
    LET r == IF has THEN ExecDropIndex(t, SyncedIndex(p.kind, f.name), fail)
             ELSE ExecAddIndex(t, f.name, SyncedIndex(p.kind, f.name), fail)
    IN  IF ~Confirmed(input) THEN Answered(t, pend, <<Ask(p, FALSE)>>, FALSE)
        ELSE Answered(r.table, pend,
                      <<Ask(p, TRUE), Ddl(p.kind, f.name, TrimSpace(input.text), r.ok)>>, FALSE)

\* "Field exists in DB but not in model. Delete?": removeDBField panics when
\* the ALTER TABLE ... DROP fails
ConfirmRemove(p, input, t, pend, fail) ==
    LET r == ExecDropColumn(t, p.field, fail)
    IN  IF ~ConfirmedDrop(input) THEN Answered(t, pend, <<Ask(p, FALSE)>>, FALSE)
        ELSE Answered(r.table, pend,
                      <<Ask(p, TRUE), Ddl("drop", p.field, TrimSpace(input.text), r.ok)>>, ~r.ok)

\* the prompt for the proposed action p and what follows the answer
AnswerPrompt(p, input, fs, scs, t, pend, fail) ==
    CASE p.kind = "add" -> QueueAdd(p, input, FieldOf(fs, p.field), t, pend, fail)
      [] p.kind = "modify" -> ConfirmModify(p, input, FieldOf(fs, p.field), t, pend, fail)
      [] p.kind = "unique" ->
            ConfirmSync(p, input, FieldOf(fs, p.field), SchemaOf(scs, p.field).isunique, t, pend, fail)
      [] p.kind = "primary" ->
            ConfirmSync(p, input, FieldOf(fs, p.field), SchemaOf(scs, p.field).isprimary, t, pend, fail)
      [] p.kind = "index" ->
            ConfirmSync(p, input, FieldOf(fs, p.field), SchemaOf(scs, p.field).isindex, t, pend, fail)
      [] OTHER -> ConfirmRemove(p, input, t, pend, fail)

\* m.addField of the first pending field: it panics when the ALTER TABLE ...
\* ADD fails
AddField(fs, t, pend, fail) ==
    LET f == FieldOf(fs, Head(pend).field)
        r == ExecAddColumn(t, ColumnDefinition(f), AddIndexStatement(f), fail)
    IN  Answered(r.table, Tail(pend), <<Ddl("add", f.name, Head(pend).answer, r.ok)>>, ~r.ok)

-----------------------------------------------------------------------------
(* The reconciler as a state machine *)

\* the type and length of the declared fields: one integer, one string, one
\* BOOLEAN, one rendered CHAR(36) and one without a rendering of its own
FieldKinds == {<<"Int", 11>>, <<"VarChar", 20>>, <<"Bool", 0>>, <<"UUID", 0>>, <<"Double", 0>>}

\* the defaults declared: a number, and for the BOOLEAN also the word the
\* column definition renders as TRUE; none for the type rendered as TEXT
DefaultValues(t) ==
    CASE t = "Bool" -> {<<"1">>, <<"t", "r", "u", "e">>}
      [] t = "Double" -> {}
      [] OTHER -> {<<"1">>}

\* the plain nullable field of a kind, and the fields that differ from it in
\* one respect: NOT NULL, a default, an index, a primary key
FieldsOfKind(name, kind) ==
    LET plain == CreateField(name, kind[1], kind[2])
        key   == [plain EXCEPT !.nullable = FALSE, !.index.PrimaryKey = TRUE]
    IN  {plain, [plain EXCEPT !.nullable = FALSE],
         [plain EXCEPT !.index.Unique = TRUE], [plain EXCEPT !.index.Index = TRUE],
         key, [key EXCEPT !.autoIncrement = TRUE]}
            \cup {[plain EXCEPT !.defaultValue = d] : d \in DefaultValues(kind[1])}

FirstFields == UNION {FieldsOfKind("a", kind) : kind \in FieldKinds}

SecondFields == {[CreateField("b", "Int", 11) EXCEPT !.index.Index = TRUE]}

\* the declared models: one or two fields that pass validation, in either of
\* the orders the range over the map m.FieldTypes can yield
Models ==
    {fs \in {<<a>> : a \in FirstFields}
             \cup {<<a, b>> : a \in FirstFields, b \in SecondFields}
             \cup {<<b, a>> : a \in FirstFields, b \in SecondFields} :
        MetaValidate(fs)}

\* the fields earlier versions of the model declared, whose columns the table has
OldFields ==
    {[CreateField("a", "Int", 11) EXCEPT !.nullable = FALSE, !.autoIncrement = TRUE,
                                         !.index.PrimaryKey = TRUE],
     [CreateField("a", "VarChar", 20) EXCEPT !.index.Unique = TRUE],
     [CreateField("a", "Bool", 0) EXCEPT !.defaultValue = <<"1">>],
     [CreateField("a", "UUID", 0) EXCEPT !.index.Index = TRUE]}

ColumnOf(f) == NewColumn(ColumnDefinition(f), AddIndexStatement(f))

\* the live tables: a column "a" or none, a column "c" no model declares or
\* none, and at least one column
Tables ==
    {a \o c : a \in {<<>>} \cup {<<ColumnOf(f)>> : f \in OldFields},
              c \in {<<>>, <<ColumnOf(CreateField("c", "VarChar", 20))>>}} \ {<<>>}

\* the component cache at rest, with no file and an empty table
CompIdle ==
    /\ pkType = "Int" /\ components = EmptyMap /\ file = NoFile /\ dbRows = EmptyMap
    /\ pc = "idle" /\ prompts = 0 /\ log = <<>> /\ calls = 0
    /\ last = Call("init", "nil", "", <<>>, "", NoFault)
    /\ pre = [components |-> EmptyMap, file |-> NoFile, dbRows |-> EmptyMap, prompts |-> 0]

\* os.Args[1:] of the process
ArgLists ==
    {<<>>, <<"--migrate-model">>, <<"-mm">>, <<"-mc">>, <<"--migrate-component", "-mm">>,
     <<"-m">>}

\* init(): syncDatabaseEnabled after the loop over the arguments
MigrateModel(args) == \E i \in 1..Len(args) : args[i] \in {"--migrate-model", "-mm"}

RecInit ==
    /\ CompIdle
    /\ faults = 0
    /\ \E args \in ArgLists : syncDatabaseEnabled = MigrateModel(args)
    /\ InitIdle
    /\ NewIdle /\ OtherIdle
    /\ fields \in Models
    /\ table \in Tables
    /\ schemas = <<>>
    /\ phase = "idle" /\ step = 0 /\ pending = <<>>
    /\ pass = "none" /\ trail = <<>> /\ prevClean = FALSE

\* whether the next statement fails: not once MaxFaults failures have happened
Failures == IF faults < MaxFaults THEN {FALSE, TRUE} ELSE {FALSE}

\* every prompt was confirmed and every statement succeeded
Clean(tr) == \A i \in 1..Len(tr) : tr[i].ok

\* syncModelSchema takes the snapshot and syncTableSchema begins
StartPass ==
    /\ syncDatabaseEnabled
    /\ phase \in {"idle", "done"} /\ pass /= "second"
    /\ schemas' = SyncModelSchema(table)
    /\ phase' = "running" /\ step' = 0 /\ pending' = <<>> /\ trail' = <<>>
    /\ prevClean' = (phase = "done" /\ Clean(trail))
    /\ pass' = IF pass = "none" THEN "first" ELSE "second"
    /\ UNCHANGED <<fields, table, faults>>
    /\ UNCHANGED <<compVars, startVars>>

\* the next prompt is printed and answered, and what the answer confirms is
\* executed
AnswerStep ==
    /\ phase = "running" /\ step < Len(Proposals(fields, schemas))
    /\ \E input \in Answers, fail \in Failures :
       \E r \in {AnswerPrompt(Proposals(fields, schemas)[step + 1], input, fields, schemas,
                              table, pending, fail)},
          r0 \in {AnswerPrompt(Proposals(fields, schemas)[step + 1], input, fields, schemas,
                               table, pending, FALSE)} :
            /\ fail => r /= r0
            /\ table' = r.table
            /\ pending' = r.pending
            /\ trail' = trail \o r.events
            /\ phase' = IF r.panic THEN "panic" ELSE "running"
            /\ faults' = IF fail THEN faults + 1 ELSE faults
    /\ step' = step + 1
    /\ UNCHANGED <<fields, schemas, pass, prevClean>>
    /\ UNCHANGED <<compVars, startVars>>

\* after the loops: the first of the pending fields is added
ApplyPending ==
    /\ phase = "running" /\ step = Len(Proposals(fields, schemas)) /\ pending /= <<>>
    /\ \E fail \in Failures :
       \E r \in {AddField(fields, table, pending, fail)},
          r0 \in {AddField(fields, table, pending, FALSE)} :
            /\ fail => r /= r0
            /\ table' = r.table
            /\ pending' = r.pending
            /\ trail' = trail \o r.events
            /\ phase' = IF r.panic THEN "panic" ELSE "running"
            /\ faults' = IF fail THEN faults + 1 ELSE faults
    /\ UNCHANGED <<fields, schemas, step, pass, prevClean>>
    /\ UNCHANGED <<compVars, startVars>>

\* syncTableSchema returns
EndPass ==
    /\ phase = "running" /\ step = Len(Proposals(fields, schemas)) /\ pending = <<>>
    /\ phase' = "done"
    /\ UNCHANGED <<fields, table, schemas, step, pending, pass, trail, prevClean, faults>>
    /\ UNCHANGED <<compVars, startVars>>

\* create_model without the flag: the model is marked initialised and neither
\* syncModelSchema nor syncTableSchema is called
SkipSync ==
    /\ ~syncDatabaseEnabled
    /\ phase = "idle"
    /\ phase' = "done"
    /\ UNCHANGED <<fields, table, schemas, step, pending, pass, trail, prevClean, faults>>
    /\ UNCHANGED <<compVars, startVars>>

RecNext == StartPass \/ AnswerStep \/ ApplyPending \/ EndPass \/ SkipSync

SpecRec == RecInit /\ [][RecNext]_vars

-----------------------------------------------------------------------------
(* One call of refreshComponentFromDB and the operator at its prompt *)

\* the SELECT statements one entry of refreshComponentFromDB sends: none
\* without a primary key, else the one of m.Get().Fetch()
RefreshFetches(type) == IF HasPrimaryKey(type) THEN <<"SELECT">> ELSE <<>>

PromptFrame ==
    UNCHANGED <<pkType, dbRows, calls, syncComponentsEnabled, initialised, tablePc, recVars,
                syncDatabaseEnabled, initVars, newVars, valVars, queryVars, raceVars>>

\* refreshComponentFromDB is called once
RefreshBegins ==
    /\ pc = "idle" /\ last.op = "init"
    /\ \E fault \in Allowed(Faults({}, {})) :
       \E r \in {RefreshComponentFromDB(pkType, components, file, dbRows, fault)},
          r0 \in {RefreshComponentFromDB(pkType, components, file, dbRows, NoFault)} :
            /\ components' = r.components
            /\ file' = r.file
            /\ pc' = r.pc
            /\ prompts' = IF r.pc = "prompt" THEN 1 ELSE 0
            /\ last' = Call("refresh", r.ret, "", <<>>, "", Fired(fault, r, r0))
            /\ faults' = Count(Fired(fault, r, r0))
    /\ statements' = statements \o RefreshFetches(pkType)
    /\ pre' = Snapshot
    /\ log' = <<>>
    /\ PromptFrame

\* an answer that is neither "y" nor "n": the default case, with the SELECT
\* of the call it makes
AnswerInvalid ==
    /\ pc = "prompt" /\ prompts < MaxPrompts
    /\ \E input \in Inputs \ {"y", "n"}, fault \in Allowed(Faults({}, {})) :
       \E r \in {RefreshAnswerOther(pkType, components, file, dbRows, fault)},
          r0 \in {RefreshAnswerOther(pkType, components, file, dbRows, NoFault)} :
            /\ components' = r.components
            /\ file' = r.file
            /\ pc' = r.pc
            /\ prompts' = IF r.pc = "prompt" THEN prompts + 1 ELSE prompts
            /\ last' = Call("answer", r.ret, "", <<>>, input, Fired(fault, r, r0))
            /\ faults' = Count(Fired(fault, r, r0))
    /\ statements' = statements \o RefreshFetches(pkType)
    /\ pre' = Snapshot
    /\ log' = <<>>
    /\ PromptFrame

PromptNext ==
    \/ RefreshBegins
    \/ AnswerInvalid
    \/ AnswerYes
    \/ AnswerNo

\* the operator eventually answers "y" or "n"
ValidAnswer == WF_vars(AnswerYes \/ AnswerNo)

SpecPrompt == CompInit /\ [][PromptNext]_vars /\ ValidAnswer

-----------------------------------------------------------------------------
(* The reconciler over tables that were created or altered outside the package *)

\* the Extra texts SHOW COLUMNS reports for an integer key column: none, the
\* one of an AUTO_INCREMENT column, the one of a column with an expression
\* default, and the one of an AUTO_INCREMENT column that is INVISIBLE
LiveExtras == {"", "auto_increment", "DEFAULT_GENERATED", "auto_increment INVISIBLE"}

\* the words of an Extra text
ExtraWords(extra) ==
    CASE extra = "" -> {}
      [] extra = "auto_increment INVISIBLE" -> {"auto_increment", "INVISIBLE"}
      [] OTHER -> {extra}

\* the live tables whose integer key column "a" carries any of these texts
ExternalTables ==
    {[t EXCEPT ![ColumnAt(t, "a")].extra = e] :
        t \in {u \in Tables : /\ "a" \in ColumnNames(u)
                              /\ PrimaryName \in u[ColumnAt(u, "a")].indexes},
        e \in LiveExtras}

\* the models that declare "a" as an integer primary key, with or without
\* AUTO_INCREMENT
KeyModels ==
    {fs \in Models : fs[1].name = "a" /\ fs[1].t = "Int" /\ fs[1].index.PrimaryKey}

DriftInit ==
    /\ CompIdle
    /\ faults = 0
    /\ \E args \in ArgLists : syncDatabaseEnabled = MigrateModel(args)
    /\ InitIdle
    /\ NewIdle /\ OtherIdle
    /\ fields \in KeyModels
    /\ table \in ExternalTables
    /\ schemas = <<>>
    /\ phase = "idle" /\ step = 0 /\ pending = <<>>
    /\ pass = "none" /\ trail = <<>> /\ prevClean = FALSE

SpecDrift == DriftInit /\ [][RecNext]_vars

-----------------------------------------------------------------------------
(* syncTable up to the return of create_model: the table is created, *)
(* reconciled when the flag is set, marked initialised and unregistered *)

\* the first words of the text Field.addIndexStatement() returns: it is empty
\* for a field without index and starts with ", ADD" otherwise
AddIndexText(f) == IF AddIndexStatement(f) = {} THEN <<>> ELSE <<",", "ADD">>

\* the items CreateTableIfNotExists joins with ",": the column definitions,
\* then the index text of every field that has one; each item by its first words
CreateItems(fs) ==
    [i \in 1..Len(fs) |-> <<fs[i].name>>]
        \o SelectSeq([i \in 1..Len(fs) |-> AddIndexText(fs[i])], LAMBDA text : text /= <<>>)

\* MySQL parses a CREATE TABLE whose items are column or key definitions: an
\* item that starts with "," or ADD is a syntax error
WellFormedCreate(items) ==
    \A i \in 1..Len(items) : Head(items[i]) \notin {",", "ADD"}

\* CreateTableIfNotExists: the statement is rejected when it fails to parse or
\* a column definition is bad; it creates the table only when there is none
CreateTableIfNotExists(fs, db, t, fail) ==
    LET err == \/ fail
               \/ ~WellFormedCreate(CreateItems(fs))
               \/ \E i \in 1..Len(fs) : BadDefinition(ColumnDefinition(fs[i]), {})
    IN  [ok |-> ~err,
         existing |-> IF err THEN db ELSE db \cup {TableName},
         table |-> IF err \/ TableName \in db THEN t
                   ELSE [i \in 1..Len(fs) |-> NewColumn(ColumnDefinition(fs[i]), {})]]

\* the models syncTable runs for: an integer column "a" in each of its
\* declarations, alone or with the indexed column "b"
TableModels == {fs \in Models : fs[1].name = "a" /\ fs[1].t = "Int"}

\* os.Args[1:] decides both flags
MigrateComponent(args) == \E i \in 1..Len(args) : args[i] \in {"--migrate-component", "-mc"}

TableInit ==
    /\ CompIdle
    /\ faults = 0
    /\ \E args \in ArgLists :
        /\ syncDatabaseEnabled = MigrateModel(args)
        /\ syncComponentsEnabled = MigrateComponent(args)
    /\ NewIdle /\ ValIdle /\ QueryIdle /\ RaceIdle
    /\ fields \in TableModels
    /\ \/ existing = {TableName} /\ table \in Tables
       \/ existing = {} /\ table = <<>>
    /\ registry = {TableName}
    /\ dependsOn = <<>> /\ references = <<>> /\ current = "" /\ retryCount = 0
    /\ pings = <<>> /\ sleeps = 0 /\ initPc = "idle" /\ created = <<>>
    /\ schemas = <<>>
    /\ phase = "idle" /\ step = 0 /\ pending = <<>>
    /\ pass = "none" /\ trail = <<>> /\ prevClean = FALSE
    /\ initialised = FALSE /\ statements = <<>> /\ tablePc = "wait"

TableFrame ==
    UNCHANGED <<syncDatabaseEnabled, syncComponentsEnabled, dependsOn, references, current,
                retryCount, pings, sleeps, initPc, created, newVars, valVars, queryVars,
                raceVars, compVars, fields, schemas, step, pending, pass, trail, prevClean>>

\* the wait for the driver: syncTable goes on when a Ping succeeds and panics
\* when the last one fails
WaitForDriver ==
    /\ tablePc = "wait"
    /\ \E ready \in BOOLEAN : tablePc' = IF ready THEN "create" ELSE "panic"
    /\ UNCHANGED <<table, existing, registry, phase, initialised, statements, faults>>
    /\ TableFrame

\* create_model begins: CreateTableIfNotExists sends its statement and panics
\* when it fails
CreateTable ==
    /\ tablePc = "create"
    /\ \E fail \in Failures :
       \E r \in {CreateTableIfNotExists(fields, existing, table, fail)} :
            /\ table' = r.table
            /\ existing' = r.existing
            /\ tablePc' = IF r.ok THEN "schema" ELSE "panic"
            /\ faults' = IF fail THEN faults + 1 ELSE faults
    /\ statements' = Append(statements, "CREATE")
    /\ UNCHANGED <<registry, phase, initialised>>
    /\ TableFrame

\* the branch on syncDatabaseEnabled: syncModelSchema and syncTableSchema with
\* the flag, nothing without it
SchemaStep ==
    /\ tablePc = "schema" /\ phase /= "done"
    /\ RecNext

\* create_model ends: model.initialised = true and delete(ModelsRegistry, ...)
FinishCreate ==
    /\ tablePc = "schema" /\ phase = "done"
    /\ initialised' = TRUE
    /\ registry' = registry \ {TableName}
    /\ tablePc' = "created"
    /\ UNCHANGED <<table, existing, phase, statements, faults>>
    /\ TableFrame

TableNext == WaitForDriver \/ CreateTable \/ SchemaStep \/ FinishCreate

SpecTable == TableInit /\ [][TableNext]_vars

-----------------------------------------------------------------------------
(* syncTable after create_model: the component phase *)

ReadFault == [kind |-> "read", key |-> Str(<<>>)]

\* the failures the phase can meet: of the file, of the SELECT, and of the
\* statements SyncComponentWithDB would send for the loaded set
PhaseFaults ==
    LET loaded == LoadComponentFromDisk(components, file, NoFault)
    IN  {ReadFault} \cup Faults(ActiveKeys(pkType, loaded, dbRows), StaleKeys(loaded, dbRows))

\* with --migrate-component: SyncComponentWithDB, then loadComponentFromDisk again
SyncThenLoad(type, loaded, fileNow, rows, order, fault) ==
    LET r == SyncComponentWithDB(type, loaded, fileNow, rows, order, fault)
    IN  [components |-> IF r.ret = "panic" THEN r.components
                        ELSE LoadComponentFromDisk(r.components, r.file, fault),
         file |-> r.file, dbRows |-> r.dbRows, log |-> r.log,
         pc |-> "idle", ret |-> r.ret]

\* without it: refreshComponentFromDB up to its return or its prompt
RefreshOnly(type, loaded, fileNow, rows, fault) ==
    LET r == RefreshComponentFromDB(type, loaded, fileNow, rows, fault)
    IN  [components |-> r.components, file |-> r.file, dbRows |-> rows, log |-> <<>>,
         pc |-> r.pc, ret |-> r.ret]

\* the component phase for a file that exists: loadComponentFromDisk, then
\* the branch on syncComponentsEnabled
ComponentPhase(type, comps, fileNow, rows, order, fault) ==
    LET loaded == LoadComponentFromDisk(comps, fileNow, fault)
    IN  IF syncComponentsEnabled
        THEN SyncThenLoad(type, loaded, fileNow, rows, order, fault)
        ELSE RefreshOnly(type, loaded, fileNow, rows, fault)

\* create_model has returned for a new model: its component set is the empty
\* one newModel made
PhaseInit ==
    /\ pkType \in {"Int", "VarChar"}
    /\ file \in {NoFile} \cup {FileOf(m) : m \in FileContents}
    /\ components = EmptyMap
    /\ dbRows \in TableContents(pkType)
    /\ pc = "idle" /\ prompts = 0 /\ log = <<>> /\ calls = 0
    /\ last = Call("init", "nil", "", <<>>, "", NoFault)
    /\ pre = [components |-> EmptyMap, file |-> file, dbRows |-> dbRows, prompts |-> 0]
    /\ faults = 0 /\ RecIdle /\ InitIdle /\ NewIdle
    /\ ValIdle /\ QueryIdle /\ RaceIdle
    /\ \E args \in ArgLists :
        /\ syncDatabaseEnabled = MigrateModel(args)
        /\ syncComponentsEnabled = MigrateComponent(args)
    /\ initialised = TRUE /\ statements = <<>> /\ tablePc = "components"

\* os.Stat finds no file: the phase does nothing
SkipComponents ==
    /\ tablePc = "components" /\ ~file.exists
    /\ tablePc' = "done"
    /\ UNCHANGED <<syncComponentsEnabled, initialised, statements>>
    /\ UNCHANGED <<compVars, faults, recVars, syncDatabaseEnabled, initVars, newVars, valVars,
                   queryVars, raceVars>>

\* the file exists: the phase runs to its end, to a panic of
\* SyncComponentWithDB, or to the prompt of refreshComponentFromDB
RunComponents ==
    /\ tablePc = "components" /\ file.exists
    /\ \E fault \in Allowed(PhaseFaults),
          order \in Orders(ActiveKeys(pkType, LoadComponentFromDisk(components, file, NoFault),
                                      dbRows)) :
       \E r \in {ComponentPhase(pkType, components, file, dbRows, order, fault)},
          r0 \in {ComponentPhase(pkType, components, file, dbRows, order, NoFault)} :
            /\ components' = r.components
            /\ file' = r.file
            /\ dbRows' = r.dbRows
            /\ log' = r.log
            /\ pc' = r.pc
            /\ prompts' = IF r.pc = "prompt" THEN 1 ELSE 0
            /\ last' = Call("phase", r.ret, "", <<>>, "", Fired(fault, r, r0))
            /\ faults' = Count(Fired(fault, r, r0))
            /\ tablePc' = IF r.ret = "panic" THEN "panic"
                          ELSE IF r.pc = "prompt" THEN "prompt" ELSE "done"
    /\ pre' = Snapshot
    /\ UNCHANGED <<pkType, calls>>
    /\ UNCHANGED <<syncComponentsEnabled, initialised, statements>>
    /\ UNCHANGED <<recVars, syncDatabaseEnabled, initVars, newVars, valVars, queryVars, raceVars>>

\* refreshComponentFromDB has returned (a panic of the SyncComponentWithDB it
\* called ends the process instead)
EndPhase ==
    /\ tablePc = "prompt" /\ pc = "idle" /\ last.ret /= "panic"
    /\ tablePc' = "done"
    /\ UNCHANGED <<syncComponentsEnabled, initialised, statements>>
    /\ UNCHANGED <<compVars, faults, recVars, syncDatabaseEnabled, initVars, newVars, valVars,
                   queryVars, raceVars>>

\* the prompt is answered by AnswerYes, AnswerNo and AnswerOther of the
\* component protocol
PhaseNext ==
    \/ SkipComponents
    \/ RunComponents
    \/ AnswerYes
    \/ AnswerNo
    \/ AnswerOther
    \/ EndPhase

SpecPhase == PhaseInit /\ [][PhaseNext]_vars

-----------------------------------------------------------------------------
(* The registration of a model: New, newModel and validate *)

\* the field types of FieldTypes
AllTypes ==
    {"String", "Text", "VarChar", "Int", "Float", "Decimal", "Bool", "Date", "Time",
     "Timestamp", "JSON", "Enum", "Binary", "UUID", "TinyInt", "SmallInt", "MediumInt",
     "BigInt", "Double", "Real", "Char", "LongText", "MediumText", "TinyText", "Blob",
     "TinyBlob", "MediumBlob", "LongBlob", "Set", "Year", "Geometry", "Point",
     "LineString", "Polygon"}

\* the lengths declared: none, one too short for the small integers, one
\* long enough for every type that takes a length
DeclaredLengths == {0, 1, 6}

\* the literal lists a field may carry: only AsEnum and AsSet set one
Definitions(t) == IF t \in {"Enum", "Set"} THEN {"nil", "empty", "values"} ELSE {"nil"}

\* what the builders and the struct literal make of a field of a type and a
\* length: the flags for NULL, keys, indexes and auto increment, and a default
Declarations(name, t, lenth) ==
    LET plain   == CreateField(name, t, lenth)
        notNull == [plain EXCEPT !.nullable = FALSE]
        key     == [notNull EXCEPT !.index.PrimaryKey = TRUE]
    IN  UNION {{ [plain EXCEPT !.definition = d],
                 [notNull EXCEPT !.definition = d],
                 [plain EXCEPT !.definition = d, !.index.PrimaryKey = TRUE],
                 [key EXCEPT !.definition = d],
                 [key EXCEPT !.definition = d, !.index.Unique = TRUE],
                 [key EXCEPT !.definition = d, !.autoIncrement = TRUE],
                 [key EXCEPT !.definition = d, !.defaultValue = <<"1">>],
                 [plain EXCEPT !.definition = d, !.index.Unique = TRUE],
                 [plain EXCEPT !.definition = d, !.index.Index = TRUE],
                 [plain EXCEPT !.definition = d, !.autoIncrement = TRUE],
                 [plain EXCEPT !.definition = d, !.defaultValue = <<"1">>] } : d \in Definitions(t)}

DeclaredFields(name) ==
    UNION {Declarations(name, t, lenth) : t \in AllTypes, lenth \in DeclaredLengths}

\* the second field of a structure with two: a plain string or a second key
SecondDeclared ==
    {CreateField("b", "VarChar", 6),
     [CreateField("b", "VarChar", 6) EXCEPT !.nullable = FALSE, !.index.PrimaryKey = TRUE]}

\* the structures passed to New: one field, or a field of length 6 and a second
Structures ==
    {<<a>> : a \in DeclaredFields("a")}
        \cup {<<a, b>> : a \in {f \in DeclaredFields("a") : f.lenth = 6}, b \in SecondDeclared}

NewInit ==
    /\ CompIdle
    /\ faults = 0
    /\ table = <<>> /\ schemas = <<>>
    /\ phase = "idle" /\ step = 0 /\ pending = <<>>
    /\ pass = "none" /\ trail = <<>> /\ prevClean = FALSE
    /\ syncDatabaseEnabled = FALSE
    /\ InitIdle
    /\ fields \in Structures
    /\ NewIdle /\ OtherIdle

\* New(tableName, structure): newModel validates the fields and panics on the
\* first rule broken; otherwise the model enters ModelsRegistry
New ==
    /\ registered = "none"
    /\ registered' = IF MetaValidate(fields) THEN "registered" ELSE "panic"
    /\ UNCHANGED <<compared, syncDatabaseEnabled, initVars, otherVars, compVars, recVars, faults>>

\* the type check of syncTableSchema for a column created from the field:
\* field.Compare applied to the rendering fieldType.string() of its own type
CompareRendering ==
    /\ registered = "registered" /\ compared = <<>>
    /\ compared' = [i \in 1..Len(fields) |-> Compare(fields[i], FieldTypeString(fields[i].t))]
    /\ UNCHANGED <<registered, syncDatabaseEnabled, initVars, otherVars, compVars, recVars, faults>>

NewNext == New \/ CompareRendering

SpecNew == NewInit /\ [][NewNext]_vars

-----------------------------------------------------------------------------
(* The startup: init() waits for the database and creates the tables *)

\* maxRetries and retryDelay of the wait for the database
maxRetries == 30

retryDelay == 1

\* the tables the program declares
TableNames == {"d", "t"}

\* the foreign keys the declared tables can carry: none, or a field of t built
\* from a field of d with ToForeignKey, which points its referenceTable to d
ReferenceChoices(reg) ==
    {[n \in reg |-> {}]} \cup
        (IF {"d", "t"} \subseteq reg
         THEN {[n \in reg |-> IF n = "t" THEN {"d"} ELSE {}]}
         ELSE {})

\* the tables are registered by New, which gives every table an empty
\* depends_on; the database holds any of the tables from an earlier start
StartInit ==
    /\ CompIdle /\ faults = 0 /\ RecIdle /\ NewIdle /\ OtherIdle
    /\ \E args \in ArgLists : syncDatabaseEnabled = MigrateModel(args)
    /\ registry \in SUBSET TableNames
    /\ dependsOn = [n \in registry |-> <<>>]
    /\ references \in ReferenceChoices(registry)
    /\ existing \in SUBSET TableNames
    /\ current = "" /\ retryCount = 0 /\ pings = <<>> /\ sleeps = 0
    /\ initPc = "idle" /\ created = <<>>

\* the variant of SleepsBeforeRetry that sleeps after every failed attempt
SleepsAlways(count) == TRUE

\* if retryCount < maxRetries-1: the loop sleeps after a failed attempt, but
\* not after the last one
SleepsBeforeRetry(count) == count < maxRetries - 1

\* create_model(model) with the registry reg, the tables db of the database and
\* the record log of the tables completed; model is "nil" for the entry
\* ModelsRegistry yields for a name it does not hold.  CreateTableIfNotExists
\* panics when the Ping or the Exec fails; the CREATE TABLE of a table that is
\* new fails when a table its foreign keys reference does not exist.  With the
\* flag set the schema is reconciled next.
create_model(model, reg, db, done, ok) ==
    IF model = "nil"
    THEN [panic |-> "nil", registry |-> reg, existing |-> db, created |-> done]
    ELSE IF ~ok \/ ~(model \in db \/ references[model] \subseteq db)
    THEN [panic |-> "create", registry |-> reg, existing |-> db, created |-> done]
    ELSE [panic |-> "", registry |-> reg \ {model}, existing |-> db \cup {model},
          created |-> Append(done, [table |-> model, synced |-> syncDatabaseEnabled])]

\* for _, depends_on := range model.depends_on { create_model(ModelsRegistry[depends_on]) }
RECURSIVE DependsLoop(_, _, _)
DependsLoop(deps, st, ok) ==
    IF deps = <<>> \/ st.panic /= ""
    THEN st
    ELSE DependsLoop(Tail(deps),
                     create_model(IF Head(deps) \in st.registry THEN Head(deps) ELSE "nil",
                                  st.registry, st.existing, st.created, ok),
                     ok)

\* the dependencies of the model, then the model itself
CreateWithDepends(model, ok) ==
    LET st == DependsLoop(dependsOn[model],
                          [panic |-> "", registry |-> registry, existing |-> existing,
                           created |-> created], ok)
    IN  IF st.panic /= ""
        THEN st
        ELSE create_model(model, st.registry, st.existing, st.created, ok)

\* for _, model := range ModelsRegistry: the map yields the entries that are
\* left in any order
NextModel ==
    /\ initPc \in {"idle", "next"}
    /\ \E model \in registry : current' = model
    /\ retryCount' = 0 /\ pings' = <<>> /\ sleeps' = 0
    /\ initPc' = "retry"
    /\ UNCHANGED <<registry, dependsOn, references, existing, created>>
    /\ UNCHANGED <<syncDatabaseEnabled, newVars, otherVars, compVars, recVars, faults>>

\* one turn of the loop for retryCount < maxRetries: a Ping that answers ends
\* the loop, a Ping that fails is followed by a sleep and counts
PingAttempt ==
    /\ initPc = "retry" /\ retryCount < maxRetries
    /\ \E ok \in BOOLEAN :
        /\ pings' = Append(pings, ok)
        /\ IF ok
           THEN initPc' = "check" /\ UNCHANGED <<retryCount, sleeps>>
           ELSE /\ sleeps' = IF SleepsBeforeRetry(retryCount) THEN sleeps + retryDelay ELSE sleeps
                /\ retryCount' = retryCount + 1
                /\ initPc' = IF retryCount + 1 < maxRetries THEN "retry" ELSE "check"
    /\ UNCHANGED <<registry, dependsOn, references, existing, current, created>>
    /\ UNCHANGED <<syncDatabaseEnabled, newVars, otherVars, compVars, recVars, faults>>

\* the Ping after the loop: its failure is the panic "Database driver not ready"
FinalPing ==
    /\ initPc = "check"
    /\ \E ok \in BOOLEAN :
        /\ pings' = Append(pings, ok)
        /\ initPc' = IF ok THEN "create" ELSE "notReady"
    /\ UNCHANGED <<registry, dependsOn, references, existing, current, retryCount,
                   sleeps, created>>
    /\ UNCHANGED <<syncDatabaseEnabled, newVars, otherVars, compVars, recVars, faults>>

\* the dependencies and the model are created, and the model leaves the registry
CreateModels ==
    /\ initPc = "create"
    /\ \E ok \in BOOLEAN :
        \E r \in {CreateWithDepends(current, ok)} :
            /\ registry' = IF r.panic = "" THEN r.registry \ {current} ELSE r.registry
            /\ existing' = r.existing
            /\ created' = r.created
            /\ initPc' = IF r.panic = "" THEN "next"
                         ELSE IF r.panic = "nil" THEN "nilEntry" ELSE "panic"
    /\ UNCHANGED <<dependsOn, references, current, retryCount, pings, sleeps>>
    /\ UNCHANGED <<syncDatabaseEnabled, newVars, otherVars, compVars, recVars, faults>>

\* the range over ModelsRegistry has no entry left
EndLoop ==
    /\ initPc \in {"idle", "next"} /\ registry = {}
    /\ initPc' = "done"
    /\ UNCHANGED <<registry, dependsOn, references, existing, current, retryCount,
                   pings, sleeps, created>>
    /\ UNCHANGED <<syncDatabaseEnabled, newVars, otherVars, compVars, recVars, faults>>

StartNext == NextModel \/ PingAttempt \/ FinalPing \/ CreateModels \/ EndLoop

SpecInit == StartInit /\ [][StartNext]_vars

-----------------------------------------------------------------------------
(* New up to the registry, and InitialiseDB on the table it returned *)

\* a variant of newModel below that does not call validate()
NewModelUnchecked(fs) == "validated"

\* newModel: builds the meta and calls validate(), whose panic ends New
NewModel(fs) == IF MetaValidate(fs) THEN "validated" ELSE "panic"

\* the registry holds other tables or none, and so does the database
RegisterInit ==
    /\ CompIdle
    /\ faults = 0
    /\ table = <<>> /\ schemas = <<>>
    /\ phase = "idle" /\ step = 0 /\ pending = <<>>
    /\ pass = "none" /\ trail = <<>> /\ prevClean = FALSE
    /\ \E args \in ArgLists :
        /\ syncDatabaseEnabled = MigrateModel(args)
        /\ syncComponentsEnabled = MigrateComponent(args)
    /\ fields \in Structures
    /\ registry \in SUBSET (TableNames \ {TableName})
    /\ existing \in SUBSET (TableNames \ {TableName})
    /\ dependsOn = <<>> /\ references = <<>> /\ current = "" /\ retryCount = 0
    /\ pings = <<>> /\ sleeps = 0 /\ initPc = "idle" /\ created = <<>>
    /\ NewIdle /\ ValIdle /\ QueryIdle /\ RaceIdle
    /\ initialised = FALSE /\ statements = <<>> /\ tablePc = "idle"

RegisterFrame ==
    UNCHANGED <<syncDatabaseEnabled, syncComponentsEnabled, dependsOn, references, current,
                retryCount, pings, sleeps, initPc, created, compared, valVars, queryVars,
                raceVars, compVars, recVars, existing, initialised, statements, faults>>

\* New reads the structure and calls newModel
NewValidates ==
    /\ registered = "none"
    /\ registered' = NewModel(fields)
    /\ UNCHANGED <<registry, tablePc>>
    /\ RegisterFrame

\* newModel has returned: ModelsRegistry[tableName] = &response.meta
NewRegisters ==
    /\ registered = "validated"
    /\ registered' = "registered"
    /\ registry' = registry \cup {TableName}
    /\ UNCHANGED tablePc
    /\ RegisterFrame

\* InitialiseDB on the table New returned: sql.Open, then syncTable
InitialiseDB ==
    /\ registered = "registered" /\ tablePc = "idle"
    /\ tablePc' = "wait"
    /\ UNCHANGED <<registered, registry>>
    /\ RegisterFrame

RegisterNext ==
    \/ NewValidates
    \/ NewRegisters
    \/ InitialiseDB
    \/ WaitForDriver
    \/ CreateTable

SpecRegister == RegisterInit /\ [][RegisterNext]_vars

-----------------------------------------------------------------------------
(* syncModelSchema over a table that changes between the calls *)

\* a variant of syncModelSchema below that clears the snapshot first
IntrospectCleared(prev, db, t) ==
    IF TableName \notin db THEN <<>> ELSE SyncModelSchema(t)

\* the whole of syncModelSchema: when information_schema.tables does not list
\* the table the function returns at once and m.schemas keeps what it held;
\* otherwise m.schemas is set to nil and rebuilt from SHOW COLUMNS
IntrospectTable(prev, db, t) ==
    IF TableName \notin db THEN prev ELSE SyncModelSchema(t)

\* a model that was never introspected; the table exists with any of the
\* column sets, or does not exist
SnapInit ==
    /\ CompIdle /\ faults = 0 /\ NewIdle /\ OtherIdle
    /\ syncDatabaseEnabled = TRUE
    /\ registry = {} /\ dependsOn = <<>> /\ references = <<>>
    /\ current = "" /\ retryCount = 0 /\ pings = <<>> /\ sleeps = 0
    /\ initPc = "idle" /\ created = <<>>
    /\ fields = <<>>
    /\ \/ existing = {TableName} /\ table \in Tables
       \/ existing = {} /\ table = <<>>
    /\ schemas = <<>>
    /\ phase = "idle" /\ step = 0 /\ pending = <<>>
    /\ pass = "none" /\ trail = <<>> /\ prevClean = FALSE

\* one call of syncModelSchema: it returns, or a failed Ping or query panics,
\* after the snapshot was cleared and partly rebuilt when the failure came
\* after SHOW COLUMNS
Introspect ==
    /\ phase \in {"idle", "done"} /\ pass /= "second"
    /\ \E fail \in Failures :
        IF fail
        THEN /\ phase' = "panic"
             /\ schemas' \in {schemas} \cup
                    (IF TableName \in existing
                     THEN {SubSeq(SyncModelSchema(table), 1, k) : k \in 0..Len(table)}
                     ELSE {})
             /\ faults' = faults + 1
        ELSE /\ phase' = "done"
             /\ schemas' = IntrospectTable(schemas, existing, table)
             /\ faults' = faults
    /\ pass' = IF pass = "none" THEN "first" ELSE "second"
    /\ UNCHANGED <<fields, table, step, pending, trail, prevClean>>
    /\ UNCHANGED <<syncDatabaseEnabled, initVars, newVars, otherVars, compVars>>

\* the schema is changed from outside between two calls: the table is dropped,
\* created, or given other columns
ExternalChange ==
    /\ phase \in {"idle", "done"}
    /\ \/ existing' = {} /\ table' = <<>> /\ existing /= {}
       \/ existing' = {TableName} /\ table' \in Tables /\ table' /= table
    /\ phase' = "idle"
    /\ UNCHANGED <<registry, dependsOn, references, current, retryCount, pings, sleeps,
                   initPc, created>>
    /\ UNCHANGED <<fields, schemas, step, pending, pass, trail, prevClean, faults>>
    /\ UNCHANGED <<syncDatabaseEnabled, newVars, otherVars, compVars>>

SnapNext == Introspect \/ ExternalChange

SpecSnap == SnapInit /\ [][SnapNext]_vars

-----------------------------------------------------------------------------
(* The query builder: a chain of calls ended by Exec *)

\* at most this many calls in one chain
MaxChain == 6

\* the fields and the values the calls of a chain are given
QueryFields == {"f", "g"}

QueryValue == "v"

SetValue == "x"

NewQuery(operation) ==
    [operation |-> operation, whereClauses |-> <<>>, whereArgs |-> <<>>, lastColumn |-> "",
     setClauses |-> <<>>, setArgs |-> <<>>, lastSet |-> ""]

\* m.Get(): the chain starts as a SELECT
QueryGet == NewQuery("select")

\* m.Delete()
QueryDelete == NewQuery("delete")

\* q.Where(f)
QueryWhere(q, f) == [q EXCEPT !.lastColumn = f]

\* q.Is(value): the clause `column` = ? for the column of the last Where
QueryIs(q, value) ==
    [q EXCEPT !.whereClauses = Append(@, <<q.lastColumn, "=", "?">>),
              !.whereArgs = Append(@, value),
              !.lastColumn = ""]

\* q.Set(field): the operation becomes "update" only when it was empty
QuerySet(q, field) ==
    [q EXCEPT !.lastSet = field,
              !.operation = IF q.operation = "" THEN "update" ELSE q.operation]

\* m.Update(f): an UPDATE chain, with Set(f) when f is not nil
QueryUpdate(f) == IF f = "nil" THEN NewQuery("update") ELSE QuerySet(NewQuery("update"), f)

\* q.To(value): the clause is added only when the operation is "update"
QueryTo(q, value) ==
    IF q.operation = "update"
    THEN [q EXCEPT !.setClauses = Append(@, <<q.lastSet, "=", "?">>),
                   !.setArgs = Append(@, value),
                   !.lastSet = ""]
    ELSE [q EXCEPT !.lastSet = ""]

\* strings.Join of clauses with a separator between them
RECURSIVE JoinClauses(_, _)
JoinClauses(clauses, sep) ==
    IF clauses = <<>> THEN <<>>
    ELSE IF Len(clauses) = 1 THEN Head(clauses)
    ELSE Head(clauses) \o sep \o JoinClauses(Tail(clauses), sep)

\* a variant of buildWhere below without the test for an empty list
BuildWhereUnchecked(q) == <<"WHERE">> \o JoinClauses(q.whereClauses, <<>>)

\* q.buildWhere()
BuildWhere(q) ==
    IF q.whereClauses = <<>> THEN <<>> ELSE <<"WHERE">> \o JoinClauses(q.whereClauses, <<>>)

Returned(err, text, args) == [err |-> err, text |-> text, args |-> args]

\* q.Exec(): the error it returns, and the statement and arguments it sent;
\* fail is a failure of the Ping or of the statement
QueryExec(q, fail) ==
    CASE q.operation = "update" ->
            IF fail THEN Returned("database", <<>>, <<>>)
            ELSE IF q.setClauses = <<>> THEN Returned("no fields to update", <<>>, <<>>)
            ELSE IF BuildWhere(q) = <<>> THEN Returned("unsafe update", <<>>, <<>>)
            ELSE Returned("nil",
                          <<"UPDATE", TableName, "SET">> \o JoinClauses(q.setClauses, <<",">>)
                              \o BuildWhere(q),
                          q.setArgs \o q.whereArgs)
      [] q.operation = "delete" ->
            IF fail THEN Returned("database", <<>>, <<>>)
            ELSE IF BuildWhere(q) = <<>> THEN Returned("unsafe delete", <<>>, <<>>)
            ELSE Returned("nil", <<"DELETE", "FROM", TableName>> \o BuildWhere(q), q.whereArgs)
      [] OTHER ->
            IF fail THEN Returned("database", <<>>, <<>>)
            ELSE Returned("invalid Exec call", <<>>, <<>>)

Called(name, arg) == [call |-> name, arg |-> arg]

\* no chain was started
QueryInit ==
    /\ CompIdle /\ faults = 0 /\ RecIdle /\ InitIdle /\ NewIdle /\ ValIdle /\ RaceIdle
    /\ TableIdle
    /\ syncDatabaseEnabled = FALSE
    /\ query = NewQuery("none") /\ chain = <<>>
    /\ result = Returned("none", <<>>, <<>>)

\* what the calls of a chain leave unchanged
QueryFrame ==
    /\ UNCHANGED <<result, faults>>
    /\ UNCHANGED <<syncDatabaseEnabled, initVars, newVars, valVars, raceVars, tableVars,
                   compVars, recVars>>

CallGet ==
    /\ chain = <<>>
    /\ query' = QueryGet
    /\ chain' = <<Called("Get", "")>>
    /\ QueryFrame

CallUpdate ==
    /\ chain = <<>>
    /\ \E f \in QueryFields \cup {"nil"} :
        /\ query' = QueryUpdate(f)
        /\ chain' = <<Called("Update", f)>>
    /\ QueryFrame

CallDelete ==
    /\ chain = <<>>
    /\ query' = QueryDelete
    /\ chain' = <<Called("Delete", "")>>
    /\ QueryFrame

\* the chain can go on: it was started, Exec was not called, and one more call
\* leaves room for Exec
Open == chain /= <<>> /\ result.err = "none" /\ Len(chain) < MaxChain - 1

CallWhere ==
    /\ Open
    /\ \E f \in QueryFields :
        /\ query' = QueryWhere(query, f)
        /\ chain' = Append(chain, Called("Where", f))
    /\ QueryFrame

CallIs ==
    /\ Open
    /\ query' = QueryIs(query, QueryValue)
    /\ chain' = Append(chain, Called("Is", QueryValue))
    /\ QueryFrame

CallSet ==
    /\ Open
    /\ \E f \in QueryFields :
        /\ query' = QuerySet(query, f)
        /\ chain' = Append(chain, Called("Set", f))
    /\ QueryFrame

CallTo ==
    /\ Open
    /\ query' = QueryTo(query, SetValue)
    /\ chain' = Append(chain, Called("To", SetValue))
    /\ QueryFrame

CallExec ==
    /\ chain /= <<>> /\ result.err = "none"
    /\ \E fail \in Failures :
        /\ result' = QueryExec(query, fail)
        /\ faults' = IF fail THEN faults + 1 ELSE faults
    /\ chain' = Append(chain, Called("Exec", ""))
    /\ UNCHANGED query
    /\ UNCHANGED <<syncDatabaseEnabled, initVars, newVars, valVars, raceVars, tableVars,
                   compVars, recVars>>

QueryNext ==
    CallGet \/ CallUpdate \/ CallDelete \/ CallWhere \/ CallIs \/ CallSet \/ CallTo \/ CallExec

SpecQuery == QueryInit /\ [][QueryNext]_vars

-----------------------------------------------------------------------------
(* One goroutine reading the component map while another one changes it *)

\* what GetComponent(id) or GetComponents() returns when it finds the map m
ReadResult(op, m, id) ==
    [map   |-> IF op = "GetComponents" THEN m ELSE EmptyMap,
     value |-> IF op = "GetComponent" /\ id \in DOMAIN m THEN m[id] ELSE "",
     ok    |-> op = "GetComponent" /\ id \in DOMAIN m]

NoResult == [map |-> EmptyMap, value |-> "", ok |-> FALSE]

\* the reader: where it is, the accessor it runs, what a read that is under
\* way can find (seen), whether a write of the map structure overlapped it
\* (torn), and what it returned
ReaderAt(where, op, id, seen, torn, got) ==
    [pc |-> where, op |-> op, id |-> id, seen |-> seen, torn |-> torn, got |-> got]

\* the writer: where it is, the method it runs, its arguments, the map its
\* write installs and the file it saves, and whether the write changes the map
\* in place ("map") or replaces the field m.components ("field")
WriterAt(where, op, id, value, kind, next, saved) ==
    [pc |-> where, op |-> op, id |-> id, value |-> value, kind |-> kind,
     next |-> next, saved |-> saved]

WriterDone(op) == WriterAt("done", op, <<>>, "", "", EmptyMap, NoFile)

Writing == {"write1", "write2", "assign"}

\* no lock is taken by any of the methods: a write that starts while a read is
\* under way is seen by the read, which may find the map before or after the
\* write; a write in place during a map lookup can also end the program with
\* "concurrent map read and map write"
Observed(rd, wr) ==
    IF rd.pc = "reading" /\ wr.pc \in Writing
    THEN [rd EXCEPT !.seen = @ \cup {ReadResult(rd.op, wr.next, rd.id)},
                    !.torn = @ \/ (wr.kind = "map" /\ rd.op = "GetComponent")]
    ELSE rd

Alive == reader.pc /= "fatal"

RaceInit ==
    /\ pkType \in {"Int", "VarChar"}
    /\ file \in {NoFile} \cup {FileOf(m) : m \in FileContents}
    /\ components = LoadComponentFromDisk(EmptyMap, file, NoFault)
    /\ dbRows \in TableContents(pkType)
    /\ pc = "idle" /\ prompts = 0 /\ log = <<>> /\ calls = 0
    /\ last = Call("init", "nil", "", <<>>, "", NoFault)
    /\ pre = [components |-> EmptyMap, file |-> NoFile, dbRows |-> EmptyMap, prompts |-> 0]
    /\ faults = 0 /\ RecIdle /\ syncDatabaseEnabled = FALSE /\ InitIdle /\ NewIdle
    /\ ValIdle /\ QueryIdle /\ TableIdle
    /\ reader = ReaderAt("idle", "", <<>>, {}, FALSE, NoResult)
    /\ writer = WriterDone("")

RaceFrame ==
    /\ UNCHANGED <<pkType, pc, prompts, last, pre, log>>
    /\ UNCHANGED <<recVars, syncDatabaseEnabled, initVars, newVars, valVars, queryVars,
                   tableVars>>

\* GetComponent(id) or GetComponents() is entered
ReadBegin ==
    /\ Alive /\ reader.pc \in {"idle", "done"}
    /\ \E op \in {"GetComponent", "GetComponents"}, id \in UpdateIds :
        reader' = Observed(ReaderAt("reading", op, id, {ReadResult(op, components, id)},
                                    FALSE, NoResult),
                           writer)
    /\ UNCHANGED <<components, file, dbRows, calls, faults, writer>>
    /\ RaceFrame

\* the accessor returns
ReadEnd ==
    /\ reader.pc = "reading"
    /\ \/ \E got \in reader.seen : reader' = [reader EXCEPT !.pc = "done", !.got = got]
       \/ reader.torn /\ reader' = [reader EXCEPT !.pc = "fatal"]
    /\ UNCHANGED <<components, file, dbRows, calls, faults, writer>>
    /\ RaceFrame

\* UpdateComponent is entered: the first check and, for a known id, the start
\* of the first write
UpdateBegin ==
    /\ Alive /\ writer.pc = "done" /\ calls < MaxCalls
    /\ \E id \in UpdateIds, value \in {NewValue, EmptyValue} :
        writer' = IF id \in DOMAIN components
                  THEN WriterAt("write1", "update", id, value, "map",
                                Put(components, id, value), file)
                  ELSE WriterDone("update")
    /\ reader' = Observed(reader, writer')
    /\ calls' = calls + 1
    /\ UNCHANGED <<components, file, dbRows, faults>>
    /\ RaceFrame

\* a write of the map, or of the field m.components and the file, is complete
WriteEnd ==
    /\ Alive /\ writer.pc \in Writing
    /\ components' = writer.next
    /\ file' = writer.saved
    /\ writer' = IF writer.pc = "write1" THEN [writer EXCEPT !.pc = "exec"]
                 ELSE WriterDone(writer.op)
    /\ UNCHANGED <<dbRows, calls, faults, reader>>
    /\ RaceFrame

\* the UPDATE statement of UpdateComponent, and the start of its second write
UpdateExec ==
    /\ Alive /\ writer.pc = "exec"
    /\ \E fault \in Allowed({NoFault, [kind |-> "update", key |-> Str(<<>>)]}) :
       \E r \in {UpdateComponent(pkType, components, dbRows, writer.id, writer.value, fault)} :
            /\ dbRows' = r.dbRows
            /\ writer' = IF r.ret = "nil" THEN [writer EXCEPT !.pc = "write2"]
                         ELSE WriterDone("update")
            /\ faults' = IF fault = NoFault THEN faults ELSE faults + 1
    /\ reader' = Observed(reader, writer')
    /\ UNCHANGED <<components, file, calls>>
    /\ RaceFrame

\* SyncComponentWithDB up to its assignment of m.components, which only the
\* reconcile path reaches
SyncWriter(op, order) ==
    LET r == SyncComponentWithDB(pkType, components, file, dbRows, order, NoFault)
    IN  [dbRows |-> r.dbRows,
         writer |-> IF r.path = "reconcile" /\ r.ret = "nil"
                    THEN WriterAt("assign", op, <<>>, "", "field", r.components, r.file)
                    ELSE WriterDone(op)]

SyncBegin ==
    /\ Alive /\ writer.pc = "done" /\ calls < MaxCalls
    /\ \E order \in Orders(ActiveKeys(pkType, components, dbRows)) :
       \E s \in {SyncWriter("sync", order)} :
            /\ dbRows' = s.dbRows
            /\ writer' = s.writer
    /\ reader' = Observed(reader, writer')
    /\ calls' = calls + 1
    /\ UNCHANGED <<components, file, faults>>
    /\ RaceFrame

\* refreshComponentFromDB up to its assignment of m.components; at the prompt
\* "y" runs SyncComponentWithDB and "n" installs the empty set
RefreshBegin ==
    /\ Alive /\ writer.pc = "done" /\ calls < MaxCalls
    /\ \E input \in {"y", "n"}, order \in Orders(ActiveKeys(pkType, components, dbRows)) :
       \E r \in {RefreshComponentFromDB(pkType, components, file, dbRows, NoFault)} :
            IF r.ret = "overwritten"
            THEN /\ writer' = WriterAt("assign", "refresh", <<>>, "", "field",
                                       r.components, r.file)
                 /\ dbRows' = dbRows
            ELSE IF r.ret = "prompt" /\ input = "n"
            THEN /\ writer' = WriterAt("assign", "refresh", <<>>, "", "field", EmptyMap,
                                       SaveComponentToDisk(EmptyMap, file, NoFault).file)
                 /\ dbRows' = dbRows
            ELSE IF r.ret = "prompt"
            THEN \E s \in {SyncWriter("refresh", order)} :
                    /\ writer' = s.writer
                    /\ dbRows' = s.dbRows
            ELSE /\ writer' = WriterDone("refresh")
                 /\ dbRows' = dbRows
    /\ reader' = Observed(reader, writer')
    /\ calls' = calls + 1
    /\ UNCHANGED <<components, file, faults>>
    /\ RaceFrame

RaceNext ==
    ReadBegin \/ ReadEnd \/ UpdateBegin \/ WriteEnd \/ UpdateExec \/ SyncBegin \/ RefreshBegin

SpecRace == RaceInit /\ [][RaceNext]_vars

-----------------------------------------------------------------------------
(* meta.validate: one goroutine per field, joined before the aggregate check *)

\* at most this many fields in a validated structure
MaxWorkers == 3

\* the fields a validated structure is built from: a key, a plain column, an
\* ENUM without literals that shares the name of the plain column, a key left
\* nullable, and a second key
ValidatedFields ==
    LET key(name, t) == [CreateField(name, t, 6) EXCEPT !.nullable = FALSE,
                                                        !.index.PrimaryKey = TRUE]
    IN  <<key("a", "Int"),
          CreateField("b", "VarChar", 6),
          CreateField("b", "Enum", 0),
          [CreateField("c", "Int", 6) EXCEPT !.index.PrimaryKey = TRUE],
          key("d", "VarChar")>>

\* the structures validated: two to MaxWorkers of these fields, in any order
ValidatedStructures ==
    UNION {{[i \in 1..n |-> ValidatedFields[p[i]]] :
                p \in {q \in [1..n -> 1..Len(ValidatedFields)] :
                            \A i, j \in 1..n : i /= j => q[i] /= q[j]}} :
           n \in 2..MaxWorkers}

Raised(rule, f) == [rule |-> rule, field |-> f.name]

\* the checks of a goroutine between the name check and primaryKeyCount++:
\* the rule broken, or "nil"
BeforeCount(f) ==
    IF ~DefinitionValid(f) THEN "definition"
    ELSE IF f.index.PrimaryKey /\ f.index.Unique THEN "keyUnique"
    ELSE IF f.index.PrimaryKey /\ ~PrimaryType(f.t) THEN "keyType"
    ELSE "nil"

\* the checks of a goroutine after primaryKeyCount++, f.Validate() included
AfterCount(f) ==
    IF f.index.PrimaryKey /\ f.nullable THEN "keyNullable"
    ELSE IF f.index.PrimaryKey /\ f.defaultValue /= <<>> THEN "keyDefault"
    ELSE IF f.autoIncrement /\ ~f.index.PrimaryKey THEN "autoKey"
    ELSE IF f.autoIncrement /\ Head(FieldTypeString(f.t)) /= "INT" THEN "autoType"
    ELSE IF ~FieldValidate(f) THEN "field"
    ELSE "nil"

\* a goroutine: where it is, the value it panicked with, and its place among
\* the goroutines that recovered (0 before it recovers)
Worker(where, err, rank) == [pc |-> where, err |-> err, rank |-> rank]

Panicked(w, rule, f) == Worker("recover", Raised(rule, f), w.rank)

Recovered == {i \in 1..Len(workers) : workers[i].rank > 0}

\* a variant of the join below that does not wait
JoinedAnyway(n) == TRUE

\* wg.Wait() returns when the counter is zero
Joined(n) == n = 0

ValInit ==
    /\ CompIdle
    /\ faults = 0
    /\ table = <<>> /\ schemas = <<>>
    /\ phase = "idle" /\ step = 0 /\ pending = <<>>
    /\ pass = "none" /\ trail = <<>> /\ prevClean = FALSE
    /\ syncDatabaseEnabled = FALSE
    /\ InitIdle /\ NewIdle /\ QueryIdle /\ RaceIdle /\ TableIdle
    /\ fields \in ValidatedStructures
    /\ workers = <<>> /\ fieldNames = {} /\ firstErr = NoError
    /\ primaryKeyCount = 0 /\ wg = 0 /\ mainPc = "spawn"

ValFrame ==
    UNCHANGED <<compared, syncDatabaseEnabled, initVars, queryVars, raceVars, tableVars, compVars,
                recVars, faults>>

\* wg.Add(1); go func(f *Field) {...}(field), for the next field
Spawn ==
    /\ mainPc = "spawn" /\ Len(workers) < Len(fields)
    /\ workers' = Append(workers, Worker("name", NoError, 0))
    /\ wg' = wg + 1
    /\ UNCHANGED <<fieldNames, firstErr, primaryKeyCount, mainPc, registered>>
    /\ ValFrame

\* the duplicate name check, under mu
CheckName ==
    /\ \E i \in 1..Len(workers) :
        /\ workers[i].pc = "name"
        /\ IF fields[i].name \in fieldNames
           THEN /\ workers' = [workers EXCEPT ![i] = Panicked(@, "duplicate", fields[i])]
                /\ UNCHANGED fieldNames
           ELSE /\ workers' = [workers EXCEPT ![i].pc = "key"]
                /\ fieldNames' = fieldNames \cup {fields[i].name}
        /\ UNCHANGED <<firstErr, primaryKeyCount, wg, mainPc, registered>>
    /\ ValFrame

\* the ENUM and key checks, then primaryKeyCount++ under mu for a key
CountKey ==
    /\ \E i \in 1..Len(workers) :
        /\ workers[i].pc = "key"
        /\ IF BeforeCount(fields[i]) /= "nil"
           THEN /\ workers' = [workers EXCEPT ![i] = Panicked(@, BeforeCount(fields[i]), fields[i])]
                /\ UNCHANGED primaryKeyCount
           ELSE /\ workers' = [workers EXCEPT ![i].pc = "rest"]
                /\ primaryKeyCount' = IF fields[i].index.PrimaryKey
                                      THEN primaryKeyCount + 1 ELSE primaryKeyCount
        /\ UNCHANGED <<fieldNames, firstErr, wg, mainPc, registered>>
    /\ ValFrame

\* the checks that follow, up to the return of the goroutine's body
CheckRest ==
    /\ \E i \in 1..Len(workers) :
        /\ workers[i].pc = "rest"
        /\ workers' = IF AfterCount(fields[i]) /= "nil"
                      THEN [workers EXCEPT ![i] = Panicked(@, AfterCount(fields[i]), fields[i])]
                      ELSE [workers EXCEPT ![i].pc = "exit"]
        /\ UNCHANGED <<fieldNames, firstErr, primaryKeyCount, wg, mainPc, registered>>
    /\ ValFrame

\* the deferred recover: panicOnce.Do keeps the value of the first goroutine
\* that gets here
Recover ==
    /\ \E i \in 1..Len(workers) :
        /\ workers[i].pc = "recover"
        /\ firstErr' = IF Recovered = {} THEN workers[i].err ELSE firstErr
        /\ workers' = [workers EXCEPT ![i].pc = "exit", ![i].rank = Cardinality(Recovered) + 1]
        /\ UNCHANGED <<fieldNames, primaryKeyCount, wg, mainPc, registered>>
    /\ ValFrame

\* the deferred wg.Done()
Done ==
    /\ \E i \in 1..Len(workers) :
        /\ workers[i].pc = "exit"
        /\ workers' = [workers EXCEPT ![i].pc = "gone"]
        /\ wg' = wg - 1
        /\ UNCHANGED <<fieldNames, firstErr, primaryKeyCount, mainPc, registered>>
    /\ ValFrame

\* wg.Wait(), after the loop over the fields
Wait ==
    /\ mainPc = "spawn" /\ Len(workers) = Len(fields)
    /\ Joined(wg)
    /\ mainPc' = "check"
    /\ UNCHANGED <<workers, fieldNames, firstErr, primaryKeyCount, wg, registered>>
    /\ ValFrame

\* the aggregate check: panic(firstErr), then the count of primary keys
Aggregate ==
    /\ mainPc = "check"
    /\ mainPc' = "done"
    /\ registered' = IF firstErr /= NoError THEN "panic"
                     ELSE IF ~PrimaryCountValid(primaryKeyCount) THEN "panic"
                     ELSE "registered"
    /\ UNCHANGED <<workers, fieldNames, firstErr, primaryKeyCount, wg>>
    /\ ValFrame

ValNext ==
    \/ Spawn
    \/ CheckName \/ CountKey \/ CheckRest \/ Recover \/ Done
    \/ Wait
    \/ Aggregate

SpecValidate == ValInit /\ [][ValNext]_vars

-----------------------------------------------------------------------------
(* Properties of the component sync protocol, checked under SpecComp *)

\* the last step was a pass of SyncComponentWithDB: called directly, or from the
\* conflict prompt answered "y"
SyncPass == last.op = "sync" \/ (last.op = "answer" /\ last.input = "y")

\* the last step was a run of refreshComponentFromDB that was not left waiting
\* at an earlier prompt: the call itself or its recursion after an invalid answer
RefreshRun == last.op = "refresh" \/ (last.op = "answer" /\ last.input \notin {"y", "n"})

\* the prompts the running refresh had printed before its last run: none when
\* the run was the call itself
PromptsBefore == IF last.op = "refresh" THEN 0 ELSE pre.prompts

Issued(op, key) == \E i \in 1..Len(log) : log[i].op = op /\ log[i].key = key

\* the key strings of the rows of a table
RowKeys(rows) == {Sprint(k) : k \in DOMAIN rows}

\* k is the decimal string of the integer n
DecimalOf(k, n) == Atoi(k).ok /\ Atoi(k).n = n /\ Sprint(Int64(n)) = k

\* C1: after a SyncComponentWithDB pass that returns without error, the
\* in-memory set equals the rows of the table and the JSON file equals the
\* in-memory set.  Stated for the passes that went through the reconcile path
\* and met no failure of the database or the file system; it is violated even
\* there, because the rows deleted as stale stay in dbResults, from which
\* m.components and the file are rebuilt.
C1_SyncedStateAgrees ==
    (SyncPass /\ last.ret = "nil" /\ last.path = "reconcile" /\ faults = 0)
        => (components = Updated(dbRows) /\ file.data = components)

\* C2: with a non-empty local set L and a non-empty table D, every key of L
\* not in D is inserted, every key of D not in L is deleted, and the final
\* in-memory set and JSON file hold exactly the keys of L.  Stated for the
\* passes that met no failure; the last part is violated: the final keys are
\* those of L and D together.
C2_FinalKeysAreLocalKeys ==
    (SyncPass /\ last.ret = "nil" /\ faults = 0
        /\ DOMAIN pre.components /= {} /\ DOMAIN pre.dbRows /= {})
        => /\ \A k \in DOMAIN pre.components \ RowKeys(pre.dbRows) : Issued("INSERT", Str(k))
           /\ \A d \in DOMAIN pre.dbRows :
                Sprint(d) \notin DOMAIN pre.components => Issued("DELETE", d)
           /\ DOMAIN components = DOMAIN pre.components
           /\ DOMAIN file.data = DOMAIN pre.components

\* C3: with an integer primary key, a local key that is the decimal string of a
\* primary key value the driver returned as int64 is the same record to
\* SyncComponentWithDB: no INSERT is issued for it, its row is not deleted, and
\* when the pass has rebuilt the in-memory set the record is in it exactly once.
C3_DecimalKeyIsSameRecord ==
    (SyncPass /\ pkType = "Int")
        => \A k \in DOMAIN pre.components, n \in KeyInts :
            (DecimalOf(k, n) /\ Int64(n) \in DOMAIN pre.dbRows)
                => /\ ~Issued("INSERT", Str(k))
                   /\ ~Issued("DELETE", Int64(n))
                   /\ Int64(n) \in DOMAIN dbRows
                   /\ k \in DOMAIN components
                   /\ (last.ret = "nil" \/ last.fault.kind = "save")
                        => {s \in DOMAIN components : Atoi(s).ok /\ Atoi(s).n = n} = {k}

\* a pass with an integer primary key that found a local key in the table under
\* its number and ran to the end
C3_Witness ==
    /\ SyncPass /\ pkType = "Int" /\ last.ret = "nil" /\ last.path = "reconcile"
    /\ <<"0">> \in DOMAIN pre.components /\ Int64(0) \in DOMAIN pre.dbRows
    /\ <<"0">> \in DOMAIN components /\ Int64(0) \in DOMAIN dbRows
    /\ Len(log) > 0

\* C4: a pass with a non-empty local set over an empty table in which every
\* insert succeeds leaves exactly one row per local record in the table, and
\* the in-memory set and the JSON file as they were.
C4_EmptyDatabaseIsFilled ==
    (SyncPass /\ last.path = "dbempty" /\ \A i \in 1..Len(log) : log[i].ok)
        => /\ DOMAIN pre.components /= {} /\ DOMAIN pre.dbRows = {}
           /\ Cardinality(DOMAIN dbRows) = Cardinality(DOMAIN pre.components)
           /\ \A k \in DOMAIN pre.components :
                /\ ColumnValue(pkType, k).ok
                /\ ColumnValue(pkType, k).key \in DOMAIN dbRows
                /\ dbRows[ColumnValue(pkType, k).key] = pre.components[k]
           /\ components = pre.components
           /\ file = pre.file

\* a pass over an empty table that inserted two records while the JSON file
\* differed from the in-memory set
C4_Witness ==
    /\ SyncPass /\ last.path = "dbempty" /\ \A i \in 1..Len(log) : log[i].ok
    /\ Cardinality(DOMAIN dbRows) = 2 /\ Len(log) = 2
    /\ file.data /= components

\* C5, as the specification states it: with an empty table and a non-empty
\* local set, an answer other than "y" or "n" brings a new prompt and changes
\* neither the in-memory set, the JSON file nor the table, so that only "y" or
\* "n" ends the conflict.  Violated when the SELECT of the repeated run fails:
\* the function prints the error and returns without a new prompt.
C5_InvalidAnswerPromptsAgain ==
    (last.op = "answer" /\ last.input \notin {"y", "n"})
        => /\ pc = "prompt" /\ prompts = pre.prompts + 1
           /\ components = pre.components /\ file = pre.file /\ dbRows = pre.dbRows

\* C5, amended: an answer other than "y" or "n" makes refreshComponentFromDB run
\* again and changes neither the in-memory set, the JSON file nor the table;
\* the run ends at a new prompt unless its SELECT fails, in which case the
\* function returns with the conflict left as it was.  While the prompt is open
\* the table is empty and the local set is not.
C5_InvalidAnswerDecidesNothing ==
    /\ (last.op = "answer" /\ last.input \notin {"y", "n"})
        => /\ components = pre.components /\ file = pre.file /\ dbRows = pre.dbRows
           /\ \/ pc = "prompt" /\ last.ret = "prompt" /\ prompts = pre.prompts + 1
              \/ pc = "idle" /\ last.ret = "fetcherror" /\ last.fault.kind = "fetch"
                    /\ prompts = pre.prompts
    /\ pc = "prompt" => (DOMAIN dbRows = {} /\ DOMAIN components /= {})

\* the operator has answered "Y" at the second prompt and is prompted again
C5_Witness ==
    /\ last.op = "answer" /\ last.input = "Y"
    /\ pc = "prompt" /\ prompts = 3 /\ DOMAIN components /= {}

C7_UpdateOfAbsentIdIsRefused ==
    (last.op = "update" /\ last.id \notin DOMAIN pre.components)
        => /\ last.ret = "notfound"
           /\ log = <<>>
           /\ components = pre.components
           /\ dbRows = pre.dbRows

\* UpdateComponent was called with an id the non-empty in-memory set lacks
\* while the table has a row under that id
C7_Witness ==
    /\ last.op = "update" /\ last.ret = "notfound"
    /\ last.id \notin DOMAIN pre.components /\ DOMAIN pre.components /= {}
    /\ last.id \in RowKeys(pre.dbRows)

\* C21: when no <table>.component.json exists at startup, the in-memory
\* component set is loaded from the rows of the table.
C21_NoFileLoadsFromDatabase ==
    (last.op = "init" /\ ~file.exists) => DOMAIN components = RowKeys(dbRows)

\* the startup ended without a file: the table has rows and the in-memory set
\* is empty
C21_Witness ==
    /\ last.op = "init" /\ ~file.exists
    /\ DOMAIN dbRows /= {} /\ DOMAIN components = {}

\* C26: in a pass over an empty table a failed insert of one local record does
\* not keep any other record from being tried: every local record is tried
\* exactly once, the records whose insert succeeded are in the table, and the
\* call returns nil.
C26_FailedInsertDoesNotStopTheOthers ==
    (SyncPass /\ last.path = "dbempty")
        => /\ last.ret = "nil"
           /\ Len(log) = Cardinality(DOMAIN pre.components)
           /\ \A i \in 1..Len(log) : log[i].op = "INSERT"
           /\ \A k \in DOMAIN pre.components :
                Cardinality({i \in 1..Len(log) : log[i].key = Str(k)}) = 1
           /\ \A i \in 1..Len(log) :
                log[i].ok => ColumnValue(pkType, log[i].key.s).key \in DOMAIN dbRows

\* the first of two inserts failed and the second one was made and succeeded
C26_Witness ==
    /\ SyncPass /\ last.path = "dbempty"
    /\ Len(log) = 2 /\ ~log[1].ok /\ log[2].ok
    /\ Cardinality(DOMAIN dbRows) = 1

\* C27: SyncComponentWithDB with an empty in-memory set fetches, inserts and
\* deletes nothing and writes no file: the rows of the table stay although
\* none of them is in the local set.
C27_EmptyLocalSetIsANoOp ==
    (SyncPass /\ DOMAIN pre.components = {})
        => /\ last.path = "nolocal" /\ last.ret = "nil"
           /\ log = <<>>
           /\ dbRows = pre.dbRows /\ file = pre.file /\ components = pre.components
           /\ last.fault = NoFault

\* a pass with an empty in-memory set over a table with two rows and without a
\* JSON file
C27_Witness ==
    /\ SyncPass /\ DOMAIN pre.components = {}
    /\ Cardinality(DOMAIN dbRows) = 2
    /\ ~file.exists

\* C33: UpdateComponent is atomic with respect to failure: when its UPDATE
\* statement returns an error, or no statement is built because the value map
\* is empty, the in-memory record of that id still holds its previous value
\* and the table is as it was.
C33_FailedUpdateKeepsMemory ==
    (last.op = "update" /\ last.ret = "error")
        => /\ components[last.id] = pre.components[last.id]
           /\ dbRows = pre.dbRows

\* the UPDATE statement of UpdateComponent failed, the table kept its row, and
\* the in-memory record holds the new value
C33_Witness ==
    /\ last.op = "update" /\ last.ret = "error"
    /\ log /= <<>> /\ ~log[1].ok
    /\ dbRows = pre.dbRows
    /\ components[last.id] = NewValue /\ pre.components[last.id] /= NewValue

\* SyncComponentWithDB ran to its end on a non-empty table without any
\* failure, and reloading the file it wrote gives the set it left in memory
SyncCompleted ==
    /\ last.op = "sync" /\ last.path = "reconcile" /\ last.ret = "nil"
    /\ last.fault = NoFault /\ pc = "idle"
    /\ LoadComponentFromDisk(components, file, NoFault) = components

\* C34: component sync converges in one pass: after SyncComponentWithDB
\* completed on a non-empty database and the file it wrote is reloaded, an
\* immediately following SyncComponentWithDB performs no INSERT and no DELETE
\* and leaves the in-memory set and the file unchanged.
C34_SecondSyncDoesNothing ==
    [][(SyncCompleted /\ last'.op = "sync" /\ last'.fault = NoFault)
            => (log' = <<>> /\ components' = components /\ file' = file)]_vars

\* the second of two syncs inserted again a row that the first one had
\* fetched from the table, deleted there as stale, and kept in memory and in
\* the file
C34_Witness ==
    /\ last.op = "sync" /\ last.fault = NoFault /\ last.path = "reconcile" /\ calls = 2
    /\ pre.file = FileOf(pre.components)
    /\ \E k \in DOMAIN pre.components :
        /\ pre.components[k] = RowValue
        /\ LookupKey(pkType, k).ok /\ LookupKey(pkType, k).key \notin DOMAIN pre.dbRows
        /\ \E i \in 1..Len(log) : log[i] = Stmt("INSERT", Str(k), TRUE)

\* C36: refreshComponentFromDB never inserts, updates or deletes a row of the
\* table unless its fetch returned no rows, the in-memory set is not empty and
\* the operator answered exactly "y"; in every other case the table is left
\* unchanged.
C36_RefreshWritesOnlyAfterYes ==
    /\ last.op = "refresh" => (dbRows = pre.dbRows /\ log = <<>>)
    /\ (last.op = "answer" /\ (dbRows /= pre.dbRows \/ log /= <<>>))
        => /\ last.input = "y"
           /\ DOMAIN pre.dbRows = {}
           /\ DOMAIN pre.components /= {}

\* the operator answered "y" at the prompt of a refresh over an empty table
\* and the local records were inserted
C36_Witness ==
    /\ last.op = "answer" /\ last.input = "y"
    /\ DOMAIN pre.dbRows = {} /\ DOMAIN pre.components /= {}
    /\ DOMAIN dbRows /= {}
    /\ \E i \in 1..Len(log) : log[i].op = "INSERT" /\ log[i].ok

-----------------------------------------------------------------------------
(* Properties of the schema reconciler, checked under SpecRec *)

IsDdl(e, kinds) == e.ev = "ddl" /\ e.kind \in kinds

IsAsk(e, p) == e.ev = "ask" /\ e.kind = p.kind /\ e.field = p.field

ColumnKinds == {"add", "modify", "drop"}

IndexKinds == {"unique", "primary", "index"}

\* C8: within one pass of syncTableSchema no ADD COLUMN statement is executed
\* before every modify, index and drop action the pass proposes for the
\* columns that already exist has been attempted: when an ADD COLUMN is in the
\* trail of the pass, the prompt of every proposed action other than an add
\* comes before it, and only ADD COLUMN statements come after it.
C8_AddsComeLast ==
    \A i \in 1..Len(trail) :
        IsDdl(trail[i], {"add"})
            => /\ \A j \in (i + 1)..Len(trail) : IsDdl(trail[j], {"add"})
               /\ \A k \in 1..Len(Proposals(fields, schemas)) :
                    Proposals(fields, schemas)[k].kind /= "add"
                        => \E j \in 1..(i - 1) : IsAsk(trail[j], Proposals(fields, schemas)[k])

\* a pass that asked about a missing column first, then altered or dropped
\* an existing column, and added the missing column after that
C8_Witness ==
    /\ Proposals(fields, schemas) /= <<>> /\ Proposals(fields, schemas)[1].kind = "add"
    /\ \E i, j \in 1..Len(trail) :
        /\ i < j
        /\ IsDdl(trail[i], {"modify", "drop"} \cup IndexKinds) /\ trail[i].ok
        /\ IsDdl(trail[j], {"add"}) /\ trail[j].ok

\* C9: Reconcile is idempotent: after a first pass in which every proposed
\* action was confirmed and every statement succeeded, a second pass over
\* the same model proposes no action.
C9_SecondPassProposesNothing ==
    (pass = "second" /\ prevClean) => Proposals(fields, schemas) = <<>>

\* a second pass over the one-field model of a UUID whose first pass created
\* the column as the field renders it: the second pass proposes to modify it
C9_Witness ==
    /\ pass = "second" /\ prevClean
    /\ fields = <<CreateField("a", "UUID", 0)>>
    /\ table = <<ColumnOf(fields[1])>>
    /\ Proposals(fields, schemas) = <<Action("modify", "a")>>

RECURSIVE AskedActions(_)
AskedActions(tr) ==
    IF tr = <<>> THEN <<>>
    ELSE (IF Head(tr).ev = "ask" THEN <<Action(Head(tr).kind, Head(tr).field)>> ELSE <<>>)
            \o AskedActions(Tail(tr))

\* C11: declining a proposed action skips that action only.  The prompts of a
\* pass are exactly the proposed actions up to the current one, whatever was
\* answered; a refusal never ends the pass (a pass ends early only by the
\* failure of a column statement); and a pass that returns has prompted for
\* every proposed action and executed the ADD of every confirmed new field.
C11_DeclineSkipsOnlyThatAction ==
    /\ AskedActions(trail) = SubSeq(Proposals(fields, schemas), 1, step)
    /\ phase = "panic" => /\ trail /= <<>>
                          /\ IsDdl(trail[Len(trail)], ColumnKinds)
                          /\ ~trail[Len(trail)].ok
    /\ (phase = "done" /\ pass /= "none") =>
        /\ step = Len(Proposals(fields, schemas))
        /\ \A i \in 1..Len(trail) :
            (trail[i].ev = "ask" /\ trail[i].kind = "add" /\ trail[i].ok)
                => \E j \in (i + 1)..Len(trail) :
                        IsDdl(trail[j], {"add"}) /\ trail[j].field = trail[i].field

\* a pass that returned after a refused modify, followed by an index prompt
\* for the same field, a prompt for a later field and the ADD of that field
C11_Witness ==
    /\ phase = "done"
    /\ \E i, j, k, l \in 1..Len(trail) :
        /\ i < j /\ j < k /\ k < l
        /\ trail[i].ev = "ask" /\ trail[i].kind = "modify" /\ ~trail[i].ok
        /\ trail[j].ev = "ask" /\ trail[j].kind \in IndexKinds /\ trail[j].field = trail[i].field
        /\ trail[k].ev = "ask" /\ trail[k].kind = "add" /\ trail[k].ok
        /\ IsDdl(trail[l], {"add"}) /\ trail[l].ok

Present == {i \in 1..Len(fields) : \E j \in 1..Len(schemas) : schemas[j].field = fields[i].name}

\* the length parseSQLType reads from the live type of the column of field i
LiveLength(i) == ParseSQLType(SchemaOf(schemas, fields[i].name)).length

\* C13: for a present column a live length of 1 against a declared length of
\* 0 is never reported as a length mismatch; for every other pair of lengths
\* a length mismatch is reported exactly when the two differ.
C13_LengthMismatchRule ==
    \A i \in Present :
        LET reported == "length" \in ColumnDrift(fields[i], SchemaOf(schemas, fields[i].name))
        IN  IF LiveLength(i) = 1 /\ fields[i].lenth = 0 THEN ~reported
            ELSE reported <=> (LiveLength(i) /= fields[i].lenth)

\* a pass over a BOOLEAN field of length 0 whose column is a tinyint(1), and
\* over nothing that differs: no action is proposed
C13_Witness ==
    /\ phase = "running" /\ Present /= {}
    /\ \E i \in Present : LiveLength(i) = 1 /\ fields[i].lenth = 0 /\ fields[i].t = "Bool"
    /\ Proposals(fields, schemas) = <<>>

\* C24: when an add, modify or drop of a column fails during a pass, nothing
\* of the pass follows the failed statement: it is the last event of the
\* pass, the process has panicked, and the fields still queued are not added.
C24_ColumnFailureEndsThePass ==
    \A i \in 1..Len(trail) :
        (IsDdl(trail[i], ColumnKinds) /\ ~trail[i].ok)
            => i = Len(trail) /\ phase = "panic"

\* a modify failed while a prompt of the pass was still to come
C24_Witness ==
    /\ phase = "panic" /\ trail /= <<>>
    /\ IsDdl(trail[Len(trail)], {"modify"}) /\ ~trail[Len(trail)].ok
    /\ step < Len(Proposals(fields, schemas))

\* C25, as the specification states it: when any statement of a pass fails, for
\* a column or for an index, the error is logged and the pass goes on with the
\* remaining checks.  Violated by the column statements, whose failure panics.
C25_EveryFailureIsLogged ==
    /\ phase /= "panic"
    /\ \A i \in 1..Len(trail) :
        (IsDdl(trail[i], ColumnKinds \cup IndexKinds) /\ ~trail[i].ok /\ phase = "done")
            => step = Len(Proposals(fields, schemas))

\* C25, amended: when the add or drop of a unique index, an index or the
\* primary key fails, the error is printed and the pass goes on: it does not
\* panic on that statement, its prompts stay those of the proposed actions, and
\* when it returns every proposed action was prompted for.  The failure of a
\* column statement ends the pass with a panic.
C25_IndexFailureIsLogged ==
    \A i \in 1..Len(trail) :
        /\ (IsDdl(trail[i], IndexKinds) /\ ~trail[i].ok)
            => /\ phase = "panic" => i < Len(trail)
               /\ AskedActions(trail) = SubSeq(Proposals(fields, schemas), 1, step)
               /\ phase = "done" => step = Len(Proposals(fields, schemas))
        /\ (IsDdl(trail[i], ColumnKinds) /\ ~trail[i].ok) => phase = "panic"

\* an index statement failed, the pass went on to a later prompt and returned
C25_Witness ==
    /\ phase = "done"
    /\ \E i, j \in 1..Len(trail) :
        /\ i < j
        /\ IsDdl(trail[i], IndexKinds) /\ ~trail[i].ok
        /\ trail[j].ev = "ask"

\* the names of the declared fields
FieldNames == {fields[i].name : i \in 1..Len(fields)}

NameInSync(n, name) == SyncedIndex(IF Head(n) = "unq" THEN "unique" ELSE "index", name)

\* C35: every unique or regular index the package creates for a field (with
\* CREATE TABLE, with the add-column statement or with an index-sync ADD) has
\* the name unq_<field> or idx_<field> that the reconciler uses in its DROP
\* INDEX, so that an index the package created can always be dropped by it:
\* a confirmed drop fails only when the database fails.
C35_CreatedIndexesCanBeDropped ==
    /\ \A i \in 1..Len(table) : \A n \in table[i].indexes \ {PrimaryName} :
        n = NameInSync(n, table[i].field)
    /\ faults = 0 =>
        \A k \in 1..Len(trail) :
            (trail[k].ev = "ddl" /\ trail[k].kind \in {"unique", "index"}) => trail[k].ok

\* the operator confirmed the drop of an index that was created with its
\* column under the name idx_<table>_<field>; the database answered, the DROP
\* INDEX idx_<field> failed, and the index is still there
C35_Witness ==
    /\ faults = 0 /\ phase = "done"
    /\ \E k \in 1..Len(trail) :
        /\ trail[k].ev = "ddl" /\ trail[k].kind = "index" /\ ~trail[k].ok
        /\ \E i \in 1..Len(table) :
            /\ table[i].field = trail[k].field
            /\ <<"idx", TableName, trail[k].field>> \in table[i].indexes
            /\ SyncedIndex("index", trail[k].field) \notin table[i].indexes

-----------------------------------------------------------------------------
(* Properties of the registration of a model, checked under SpecNew *)

\* C14: for every field type other than ENUM, Compare applied to a field of
\* the type and to the rendering fieldType.string() of that type answers true.
C14_CompareAcceptsOwnRendering ==
    \A i \in 1..Len(compared) : fields[i].t /= "Enum" => compared[i]

\* a registered model whose one field is a UUID: Compare refuses CHAR(36)
C14_Witness ==
    /\ registered = "registered" /\ Len(compared) = 1
    /\ fields[1].t = "UUID" /\ ~compared[1]

\* the number of fields declared as primary key
PrimaryCount == Cardinality({i \in 1..Len(fields) : fields[i].index.PrimaryKey})

\* C15: registration fails for a nullable primary key, for a field that is
\* both primary and unique, for auto increment on a type that is not numeric,
\* for an ENUM whose list is absent or without values, for a TEXT field with
\* an index or unique flag, and for a VARCHAR of length 0.
C15_InvalidFieldsAreRejected ==
    registered /= "none" =>
        \A i \in 1..Len(fields) :
            LET f == fields[i]
            IN  (\/ f.index.PrimaryKey /\ f.nullable
                 \/ f.index.PrimaryKey /\ f.index.Unique
                 \/ f.autoIncrement /\ ~IsNumeric(f.t)
                 \/ f.t = "Enum" /\ f.definition \in {"nil", "empty"}
                 \/ f.t = "Text" /\ (f.index.Index \/ f.index.Unique)
                 \/ f.t = "VarChar" /\ f.lenth = 0)
                    => registered = "panic"

\* New has refused a model whose one field is an ENUM with a list without
\* values and breaks no other rule
C15_Witness ==
    /\ registered = "panic"
    /\ fields = <<[CreateField("a", "Enum", 0) EXCEPT !.definition = "empty"]>>

\* C16: validation rejects every field of type ENUM or SET whose list of
\* literal values is absent or empty.
C16_EnumAndSetNeedLiterals ==
    registered /= "none" =>
        \A i \in 1..Len(fields) :
            (fields[i].t \in {"Enum", "Set"} /\ fields[i].definition \in {"nil", "empty"})
                => registered = "panic"

\* New has registered a model whose one field is a SET without a list
C16_Witness ==
    /\ registered = "registered"
    /\ fields = <<CreateField("a", "Set", 0)>>

\* the field of the documented model: CreateField().AsBigInt().IsPrimary()
DocumentedKey == [CreateField("a", "BigInt", 0) EXCEPT !.index.PrimaryKey = TRUE]

\* C17: validation accepts a primary key of any integer or string type that
\* is not nullable, has no default, is not unique and keeps the length rule
\* of its type; and the documented model registers.
C17_IntegerAndStringKeysAreAccepted ==
    (registered /= "none" /\ Len(fields) = 1) =>
        LET f == fields[1]
        IN  /\ (/\ f.index.PrimaryKey /\ ~f.nullable /\ f.defaultValue = <<>>
                /\ ~f.index.Unique /\ ~f.autoIncrement
                /\ f.t \in {"TinyInt", "SmallInt", "MediumInt", "Int", "BigInt",
                             "VarChar", "String", "Char"}
                /\ FieldValidate(f))
                    => registered = "registered"
            /\ f = DocumentedKey => registered = "registered"

\* New has refused the documented model
C17_Witness == registered = "panic" /\ fields = <<DocumentedKey>>

\* C18, as the specification states it: a table that passes registration has
\* exactly one primary key field.  Violated by a model without a primary key,
\* which validate() admits.
C18_ExactlyOnePrimaryKey == registered = "registered" => PrimaryCount = 1

\* C18, amended: a table that passes registration has at most one primary key
\* field: a model with two or more is refused, and a model with none whose
\* fields break no other rule is registered.
C18_AtMostOnePrimaryKey ==
    /\ registered = "registered" => PrimaryCount <= 1
    /\ (registered /= "none" /\ PrimaryCount >= 2) => registered = "panic"
    /\ (/\ registered /= "none" /\ PrimaryCount = 0
        /\ \A i \in 1..Len(fields) :
            FieldValidate(fields[i]) /\ DefinitionValid(fields[i]) /\ ~fields[i].autoIncrement)
            => registered = "registered"

\* New has refused a model of two fields that are both a valid primary key
C18_Witness ==
    /\ registered = "panic" /\ PrimaryCount = 2
    /\ \A i \in 1..Len(fields) :
        /\ FieldValidate(fields[i]) /\ PrimaryType(fields[i].t)
        /\ fields[i].defaultValue = <<>> /\ ~fields[i].index.Unique /\ ~fields[i].autoIncrement

-----------------------------------------------------------------------------
(* Properties of the startup, checked under SpecInit *)

\* the tables create_model has completed
CreatedTables == {created[i].table : i \in 1..Len(created)}

\* the first n Pings for the current table were made and all failed
FirstFailed(n) == Len(pings) >= n /\ \A i \in 1..n : ~pings[i]

\* C19, as the specification states it: at most 30 Pings are made for a table,
\* one second apart; the table is created as soon as one of them answers; when
\* all 30 fail the startup panics and no DDL is issued; the wait is bounded.
\* Violated by the Ping that follows the loop.
C19_FirstAnswerProceeds ==
    /\ Len(pings) <= maxRetries
    /\ sleeps <= maxRetries * retryDelay
    /\ (\E i \in 1..Len(pings) : pings[i]) => initPc /= "notReady"
    /\ FirstFailed(maxRetries) => initPc \in {"check", "notReady"}

\* C19, amended: the loop makes at most 30 Pings for a table and sleeps one
\* second after each failed one but the 30th; it ends at the first Ping that
\* answers or after the 30th failure, and one more Ping then decides: the
\* table is created if it answers, and the startup panics without DDL for the
\* table if it fails.  At most 31 Pings and 29 seconds of sleep per table.
C19_FinalPingDecides ==
    /\ Len(pings) <= maxRetries + 1
    /\ sleeps <= (maxRetries - 1) * retryDelay
    /\ initPc = "retry" =>
        /\ retryCount < maxRetries /\ Len(pings) = retryCount
        /\ FirstFailed(retryCount)
        /\ sleeps = retryCount * retryDelay
    /\ initPc = "check" =>
        /\ pings /= <<>>
        /\ FirstFailed(Len(pings) - 1)
        /\ pings[Len(pings)] \/ Len(pings) = maxRetries
    /\ initPc \in {"create", "next", "panic", "nilEntry"} =>
        pings /= <<>> /\ pings[Len(pings)]
    /\ initPc = "notReady" =>
        /\ pings /= <<>> /\ ~pings[Len(pings)]
        /\ current \notin CreatedTables /\ current \in registry

\* all 30 Pings of the loop failed, the Ping after the loop answered, and the
\* table is about to be created
C19_Witness ==
    initPc = "create" /\ Len(pings) = maxRetries + 1 /\ FirstFailed(maxRetries)

\* the tables the declaration of table n depends on: those its foreign keys
\* reference and those its depends_on lists
Depends(n) == references[n] \cup {dependsOn[n][k] : k \in 1..Len(dependsOn[n])}

-----------------------------------------------------------------------------
(* Properties of the introspection, checked under SpecSnap *)

\* C29: after every call of syncModelSchema that returns, the snapshot is the
\* list of the columns of the live table at that call, and the empty list when
\* the table does not exist; nothing of an earlier introspection is left.
C29_SnapshotIsTheLiveTable ==
    phase = "done" =>
        schemas = (IF TableName \in existing THEN SyncModelSchema(table) ELSE <<>>)

\* the second call returned for a table that had been dropped, and the
\* snapshot of the first call is still there
C29_Witness ==
    /\ phase = "done" /\ pass = "second"
    /\ existing = {} /\ schemas /= <<>>

-----------------------------------------------------------------------------
(* Properties of the query builder, checked under SpecQuery *)

\* the chain Get().Where(f).Is(v).Set(g).To(x).Exec()
DocumentedUpdate(f, g) ==
    <<Called("Get", ""), Called("Where", f), Called("Is", QueryValue),
      Called("Set", g), Called("To", SetValue), Called("Exec", "")>>

\* C23: the chain Get().Where(f).Is(v).Set(g).To(x).Exec() sends an UPDATE that
\* sets column g to x on the rows where f = v, and returns no error unless the
\* database fails.
C23_GetChainUpdates ==
    \A f, g \in QueryFields :
        chain = DocumentedUpdate(f, g) =>
            \/ result.err = "database"
            \/ /\ result.err = "nil"
               /\ result.text = <<"UPDATE", TableName, "SET", g, "=", "?", "WHERE", f, "=", "?">>
               /\ result.args = <<SetValue, QueryValue>>

\* the documented chain ended in the error of Exec for an unknown operation,
\* and no statement was sent
C23_Witness ==
    /\ chain = DocumentedUpdate("f", "g")
    /\ result.err = "invalid Exec call" /\ result.text = <<>>
    /\ query.operation = "select" /\ query.setClauses = <<>>

\* C40: Exec for an update or a delete whose list of WHERE clauses is empty
\* returns an error and sends no statement to the database; an update with no
\* SET clause likewise returns an error without executing anything.
C40_NoWhereNoStatement ==
    (/\ result.err /= "none"
     /\ query.operation \in {"update", "delete"}
     /\ \/ query.whereClauses = <<>>
        \/ query.operation = "update" /\ query.setClauses = <<>>)
        => (result.err /= "nil" /\ result.text = <<>> /\ result.args = <<>>)

\* Exec was called, with the database answering, on an update that has a SET
\* clause and no WHERE clause, and on nothing else the claim is about
C40_Witness ==
    /\ result.err = "unsafe update"
    /\ query.operation = "update" /\ query.setClauses /= <<>> /\ query.whereClauses = <<>>
    /\ faults = 0

-----------------------------------------------------------------------------
(* Properties of concurrent access to the component map, checked under SpecRace *)

\* C22: accesses to the component map are mutually excluded: a GetComponent or
\* GetComponents read never overlaps a write to the map by UpdateComponent,
\* SyncComponentWithDB or refreshComponentFromDB.
C22_ReadsExcludeWrites ==
    ~(reader.pc = "reading" /\ writer.pc \in Writing)

\* a GetComponent lookup overlapped the write in place of UpdateComponent and
\* the program ended with the runtime's fatal error
C22_Witness ==
    /\ reader.pc = "fatal" /\ reader.op = "GetComponent"
    /\ writer.op = "update" /\ writer.kind = "map"

-----------------------------------------------------------------------------
(* Properties of the concurrent validation, checked under SpecValidate *)

\* the goroutines that panicked
Failed == {i \in 1..Len(workers) : workers[i].err /= NoError}

\* C28: in meta.validate, whatever the interleaving of the goroutines, the
\* aggregate check runs only after every goroutine was started and has
\* finished; when at least one field failed, validate panics with the error
\* of exactly one failing field, the first one recorded, and the other errors
\* are discarded; when none failed and at most one field is a primary key,
\* validate returns normally; the outcome is the one of the rules applied to
\* the fields in turn.
C28_JoinThenFirstError ==
    /\ mainPc \in {"check", "done"} =>
        /\ Len(workers) = Len(fields) /\ wg = 0
        /\ \A i \in 1..Len(workers) : workers[i].pc = "gone"
        /\ Recovered = Failed
    /\ mainPc = "done" =>
        /\ Failed /= {} =>
            /\ registered = "panic"
            /\ \E i \in Failed : workers[i].rank = 1 /\ firstErr = workers[i].err
            /\ Cardinality({i \in Failed : workers[i].rank = 1}) = 1
        /\ (Failed = {} /\ primaryKeyCount <= 1) => registered = "registered"
        /\ (Failed = {} /\ primaryKeyCount > 1) => (registered = "panic" /\ firstErr = NoError)
        /\ registered = "registered" <=> MetaValidate(fields)

\* two fields failed with different errors, the goroutine of the later field
\* recovered first, and validate panicked with its error alone
C28_Witness ==
    /\ mainPc = "done" /\ registered = "panic"
    /\ \E i, j \in Failed :
        /\ i < j /\ workers[i].err /= workers[j].err
        /\ workers[j].rank = 1 /\ workers[i].rank = 2
        /\ firstErr = workers[j].err

-----------------------------------------------------------------------------
(* Properties of the reconciler over external tables, checked under SpecDrift *)

\* strings.Contains(extra, "auto_increment"), for the texts of LiveExtras
ContainsAutoIncrement(extra) == "auto_increment" \in ExtraWords(extra)

\* the fields whose column is in the snapshot
PresentFields == {i \in 1..Len(fields) : \E j \in 1..Len(schemas) : schemas[j].field = fields[i].name}

\* C31: for a present column the reconciler reports an auto-increment
\* mismatch exactly when (the live Extra text contains "auto_increment")
\* differs from the declared auto-increment flag, whatever the live Extra text.
C31_MismatchIffContainsDiffers ==
    (pass /= "none" /\ phase \in {"running", "done"}) =>
        \A i \in PresentFields :
            ("auto_increment" \in ColumnDrift(fields[i], SchemaOf(schemas, fields[i].name)))
                <=> (ContainsAutoIncrement(SchemaOf(schemas, fields[i].name).extra)
                        /= fields[i].autoIncrement)

\* a pass over a live AUTO_INCREMENT column that is INVISIBLE and a field that
\* declares no auto increment ended without any prompt for the column
C31_Witness ==
    /\ phase = "done" /\ pass = "first" /\ syncDatabaseEnabled
    /\ fields[1].name = "a" /\ ~fields[1].autoIncrement
    /\ SchemaOf(schemas, "a").extra = "auto_increment INVISIBLE"
    /\ \A k \in 1..Len(trail) : trail[k].field /= "a"
    /\ table[ColumnAt(table, "a")].extra = "auto_increment INVISIBLE"

-----------------------------------------------------------------------------
(* Properties of syncTable, checked under SpecTable *)

\* C32: without --migrate-model / -mm, syncTable takes no snapshot of the
\* schema and executes no ALTER TABLE: the only statement it sends for the
\* table is CREATE TABLE IF NOT EXISTS, and, the database answering, the table
\* is still marked initialised and removed from ModelsRegistry.
C32_NoFlagCreatesAndInitialises ==
    ~syncDatabaseEnabled =>
        /\ schemas = <<>> /\ trail = <<>>
        /\ \A i \in 1..Len(statements) : statements[i] = "CREATE"
        /\ Len(statements) <= 1
        /\ (statements /= <<>> /\ faults = 0 /\ tablePc /= "schema") =>
            (tablePc = "created" /\ initialised /\ TableName \notin registry)

\* without the flag and with a database that answers, syncTable panicked in
\* CreateTableIfNotExists for a model with a primary key: the model is not
\* initialised and still registered
C32_Witness ==
    /\ ~syncDatabaseEnabled /\ faults = 0
    /\ tablePc = "panic" /\ statements = <<"CREATE">>
    /\ fields[1].index.PrimaryKey
    /\ ~initialised /\ TableName \in registry

-----------------------------------------------------------------------------
(* Properties of the component phase, checked under SpecPhase *)

\* C37: at the end of the component phase of syncTable, for either setting of
\* --migrate-component and every answer of the operator, if the JSON file
\* exists, is readable valid JSON and the writes of the file succeed, the
\* in-memory component set equals the contents of the file.
C37_MemoryEqualsFile ==
    (tablePc = "done" /\ file.exists /\ last.fault.kind \notin {"read", "save"})
        => components = file.data

\* the phase ended after refreshComponentFromDB replaced a loaded set by the
\* rows of the table and wrote them to the file
C37_Witness ==
    /\ tablePc = "done" /\ ~syncComponentsEnabled
    /\ last.op = "phase" /\ last.ret = "overwritten" /\ last.fault = NoFault
    /\ pre.file.exists /\ DOMAIN pre.file.data /= {}
    /\ file /= pre.file /\ components = file.data /\ DOMAIN components /= {}

-----------------------------------------------------------------------------
(* Properties of New and InitialiseDB, checked under SpecRegister *)

\* C38: if the validation of a field of the table fails, New panics before
\* the table is added to ModelsRegistry and before any SQL is issued for it:
\* the registry and the database are as they were before the call, and stay so.
C38_FailedValidationChangesNothing ==
    /\ [][(registered = "none" /\ ~MetaValidate(fields))
            => (/\ registered' = "panic"
                /\ registry' = registry /\ existing' = existing /\ table' = table
                /\ dbRows' = dbRows /\ statements' = statements)]_vars
    /\ [](registered = "panic"
            => (TableName \notin registry /\ TableName \notin existing
                /\ statements = <<>> /\ tablePc = "idle"))

\* New panicked for a structure with two primary keys while another table was
\* registered and present in the database
C38_Witness ==
    /\ registered = "panic"
    /\ Len(fields) = 2 /\ \A i \in 1..2 : fields[i].index.PrimaryKey
    /\ registry /= {} /\ existing /= {}

-----------------------------------------------------------------------------
(* Properties of the prompt of refreshComponentFromDB, checked under SpecPrompt *)

\* C39: refreshComponentFromDB eventually returns provided the operator
\* eventually answers "y" or "n" (or a fetch fails or returns rows); each
\* invalid answer triggers exactly one new database fetch and, the fetch
\* succeeding on the empty table, one new prompt, so that with answers that
\* are never valid the call does not return.
C39_ReturnsOnValidAnswer ==
    /\ (pc = "prompt") ~> (pc = "idle")
    /\ [][(pc = "prompt" /\ last'.input \notin {"y", "n"})
            => (/\ Len(statements') = Len(statements) + 1
                /\ IF last'.fault.kind = "fetch"
                   THEN pc' = "idle" /\ prompts' = prompts
                   ELSE pc' = "prompt" /\ prompts' = prompts + 1)]_vars

\* the call returned on "y" after two answers that were not valid: three
\* prompts were printed and three SELECTs sent
C39_Witness ==
    /\ pc = "idle" /\ last.op = "answer" /\ last.input = "y"
    /\ prompts = 3 /\ Len(statements) = 3

====
